---- MODULE Spec2Model ----
(***************************************************************************)
(* A model of rem100, the host-side controller of the EM100Pro SPI-flash   *)
(* emulator: the 16-byte USB command transport, the Dcfg chip-config       *)
(* parser, the firmware-container validator, chip programming with the     *)
(* FPGA voltage switch, and the chunked SDRAM transfer.                    *)
(*                                                                         *)
(* Every operation has a frame variable (a record holding its arguments,   *)
(* locals, position and result) and a specification of its own that keeps  *)
(* the other frames idle.  The USB traffic of the session is the log       *)
(* `wire`: one entry per submitted transfer, with what the endpoint        *)
(* reported on completion, and one entry per sleep.                        *)
(*                                                                         *)
(* usize is taken as 64 bits wide (the CLI targets), so a u32 read from a  *)
(* file plus a small constant never wraps; u16 arithmetic keeps its width. *)
(***************************************************************************)
EXTENDS Integers, Sequences, FiniteSets, TLC

VARIABLES
    build,      \* the build profile: overflow checks on (debug) or off (release)
    wire,       \* the USB transfers and sleeps of the session, oldest first
    em100,      \* the Em100 struct: cached mcu, fpga, hw_version
    sc,         \* frame of usb::send_cmd
    dcfg,       \* frame of chips::parse_dcfg
    fwv,        \* frame of firmware::validate_firmware
    sct,        \* frame of Em100::set_chip_type (and set_fpga_voltage inside it)
    sd,         \* frame of sdram::write_sdram_with_progress / read_sdram_with_progress
    dev,        \* the device side of the SDRAM stream: what it stored and where it is
    exit_requested, \* main's AtomicBool, set by the Ctrl-C handler
    rx,         \* frame of usb::get_response / usb::bulk_read
    trace_state,\* main's TraceState
    rspt,       \* frame of trace::read_spi_trace (and read_report_buffer inside it)
    tloop,      \* frame of the trace mode of main
    tdev,       \* the device side of the trace: the reports it has yet to deliver
    con,        \* frame of trace::read_spi_trace_console
    ini,        \* frame of Em100::init
    fwu,        \* frame of firmware::firmware_write
    fwr,        \* frame of firmware::firmware_read
    sv,         \* frame of system::set_voltage
    asct,       \* frame of Em100Async::set_chip_type, with the log of its transfers
    ssn,        \* frame of Em100::set_serial_no
    ht,         \* frame of trace::read_spi_terminal, with the static MSG_COUNTER
    dp,         \* frame of firmware::firmware_to_dpfw
    dl,         \* frame of the download of main (--download)
    fwp         \* frame of firmware_write over images of full size: where it is
                \* in the flash, and the sectors it has erased

vars == <<build, wire, em100, sc, dcfg, fwv, sct, sd, dev,
          exit_requested, rx, trace_state, rspt, tloop, tdev,
          con, ini, fwu, fwr, sv, asct, ssn, ht, dp, dl, fwp>>

\* The frames of the operations of the later sections
lateVars == <<ssn, ht, dp, dl, fwp>>

\* The variables of the trace mode
traceVars == <<trace_state, rspt, tloop, tdev>>

\* The frames of the console trace, the device init, the firmware update and
\* dump, the voltage setting and the asynchronous back-end
opVars == <<con, ini, fwu, fwr, sv, asct>>

\* The frames of the first operations, the cancellation flag and get_response
coreVars == <<sc, dcfg, fwv, sct, sd, dev, exit_requested, rx>>

---------------------------------------------------------------------------
(* Bytes and integers of fixed width *)

Byte == 0..255

Min(a, b) == IF a < b THEN a ELSE b

\* usize::div_ceil
div_ceil(a, b) == (a + b - 1) \div b

\* u16::to_be_bytes, as the pair <<high, low>>
to_be_bytes16(x) == <<x \div 256, x % 256>>

\* ((hi as u16) << 8) | (lo as u16)
be16(hi, lo) == hi * 256 + lo

Zeros(n) == [i \in 1..n |-> 0]

---------------------------------------------------------------------------
(* The endpoints.  A completed transfer reports a status and the number of *)
(* bytes that actually moved; the host controls neither.                   *)

\* What the OUT endpoint may report for a buffer of n bytes: all of it, one
\* byte less, nothing, or a failed transfer.
OutOutcomes(n) ==
    { [status |-> "ok", actual_len |-> a] : a \in {n, IF n > 0 THEN n - 1 ELSE 0, 0} }
        \cup { [status |-> "err", actual_len |-> 0] }

\* The log entry of one OUT transfer whose bytes are spelled out
OutXfer(buf, o) ==
    [ep |-> "out", data |-> buf, status |-> o.status, actual_len |-> o.actual_len]

\* The log entry of a sleep
Sleep(secs) == [ep |-> "sleep", secs |-> secs]

---------------------------------------------------------------------------
(* usb::send_cmd *)

CMD_LEN == 16

\* A mutation of send_cmd_buf: the copy without the zeroed 16-byte array under it
send_cmd_buf_unpadded(data) ==
    [i \in 1..Min(Len(data), CMD_LEN) |-> data[i]]

\* let mut cmd = [0u8; 16]; cmd[..len].copy_from_slice(&data[..len])
send_cmd_buf(data) ==
    LET len == Min(Len(data), CMD_LEN)
    IN  [i \in 1..CMD_LEN |-> IF i <= len THEN data[i] ELSE 0]

\* completion.status?; if written != 16 { Err(Communication) } else { Ok(()) }
send_cmd_result(o) ==
    IF o.status # "ok" THEN "UsbTransfer"
    ELSE IF o.actual_len # CMD_LEN THEN "Communication"
    ELSE "Ok"

---------------------------------------------------------------------------
(* Idle frames: the value of each variable while its operation is not run *)

buildIdle == [overflow_checks |-> FALSE]
em100Idle == [mcu |-> 0, fpga |-> 0, hw_version |-> "Unknown", max_packet_size |-> 512]
scIdle    == [pc |-> "idle", data |-> <<>>, res |-> "none"]
dcfgIdle  == [pc |-> "idle", data |-> <<>>, res |-> [status |-> "none"]]
fwvIdle   == [pc |-> "idle", fw |-> [len |-> 0, head |-> <<>>], res |-> [status |-> "none"]]
sctIdle   == [pc |-> "idle", chip |-> [init |-> <<>>, init_len |-> 0], idx |-> 0,
              fpga_voltage |-> 0, req |-> 0, switch_ret |-> "none", res |-> "none"]
sdIdle    == [pc |-> "idle", op |-> "none", address |-> 0, length |-> 0, id |-> 0,
              base |-> 0, bytes |-> 0, data |-> <<>>, progress |-> <<>>,
              res |-> [status |-> "none", what |-> "", done |-> 0, total |-> 0]]
devIdle   == [mode |-> "idle", cursor |-> 0, mem |-> <<>>]
\* impl Default for TraceState; a timestamp is held as its two 24-bit halves
trace_stateIdle ==
    [counter |-> 0, curpos |-> 0, cmdid |-> 255, address_mode |-> 3, outbytes |-> 0,
     additional_pad_bytes |-> 0, address |-> 0, timestamp |-> [hi |-> 0, lo |-> 0],
     start_timestamp |-> [hi |-> 0, lo |-> 0], brief |-> FALSE]
rsptIdle  == [pc |-> "idle", reportdata |-> <<>>, report |-> 0, i |-> 0, out |-> <<>>,
              res |-> "none"]
tloopIdle == [pc |-> "idle",
              args |-> [start |-> FALSE, stop |-> FALSE, holdpin |-> FALSE,
                        brief |-> FALSE, address_mode |-> 3, address_offset |-> 0],
              usb_errors |-> 0, reads |-> 0, left_by |-> "none", calls |-> <<>>,
              stderr |-> <<>>, exit |-> "none"]
tdevIdle  == <<>>
TraceIdle ==
    /\ trace_state = trace_stateIdle /\ rspt = rsptIdle /\ tloop = tloopIdle
    /\ tdev = tdevIdle
rxIdle    == [pc |-> "idle", fn |-> "none", length |-> 0, res |-> [status |-> "none", data |-> <<>>]]
conIdle   == [pc |-> "idle", addr_offset |-> 0, addr_len |-> 0, reportdata |-> <<>>,
              report |-> 0, i |-> 0, do_write |-> FALSE, opcode |-> 255, out |-> <<>>,
              res |-> "none"]
iniIdle   == [pc |-> "idle", serial_no |-> 0, res |-> "none"]
fwuIdle   == [pc |-> "idle", fw |-> [len |-> 0, seed |-> 0],
              info |-> [fpga_offset |-> 0, fpga_len |-> 0, mcu_offset |-> 0, mcu_len |-> 0],
              verify |-> FALSE, stage |-> 0, i |-> 0, k |-> 0, progress |-> <<>>,
              res |-> "none"]
fwrIdle   == [pc |-> "idle", rom_size |-> 0, i |-> 0, retry |-> 0, data |-> <<>>,
              progress |-> <<>>, res |-> "none"]
svIdle    == [pc |-> "idle", channel |-> 0, mv |-> 0, res |-> "none"]
asctIdle  == [pc |-> "idle", chip |-> [init |-> <<>>, init_len |-> 0, size |-> 0],
              mcu |-> 0, fpga |-> 0, idx |-> 0, fpga_voltage |-> 0, req |-> 0,
              switch_ret |-> "none", wire |-> <<>>, res |-> "none"]
OpIdle ==
    /\ con = conIdle /\ ini = iniIdle /\ fwu = fwuIdle /\ fwr = fwrIdle
    /\ sv = svIdle /\ asct = asctIdle

\* page is the identity page read first, magic the page at 0x1f0000, steps
\* what is left to do after the first read, k the number of steps done
ssnIdle   == [pc |-> "idle", serial |-> <<0, 0, 0, 0>>, page |-> <<>>, magic |-> <<>>,
              steps |-> <<>>, k |-> 0, res |-> "none"]
\* static MSG_COUNTER: AtomicU32 = AtomicU32::new(1), as its two 16-bit halves;
\* calls is the number of calls made, data the uFIFO bytes read
htIdle    == [pc |-> "idle", show_counter |-> FALSE, msg_counter |-> [hi |-> 0, lo |-> 1],
              calls |-> 0, data |-> [length |-> 0, body |-> <<>>], len |-> 0,
              out |-> <<>>, res |-> "none"]
\* data is the flash dump: its length and the page-aligned addresses of its
\* pages that are all 0xff
dpIdle    == [pc |-> "idle", data |-> [len |-> 0, blank |-> {}],
              res |-> [status |-> "none"], verdict |-> [status |-> "none"]]
\* sdram and existing are contents as runs of bytes: len bytes taken at off
\* from src, the SDRAM's contents before the download ("old") or the file
dlIdle    == [pc |-> "idle", spi_start_address |-> 0, data_len |-> 0, maxlen |-> 0,
              verify |-> FALSE, same |-> FALSE, existing |-> <<>>, sdram |-> <<>>,
              wrote |-> FALSE, res |-> "none"]
fwpIdle   == [pc |-> "idle", fpga_len |-> 0, mcu_len |-> 0, i |-> 0, erased |-> {},
              last |-> [op |-> "none", address |-> 0], res |-> "none"]
LateIdle ==
    /\ ssn = ssnIdle /\ ht = htIdle /\ dp = dpIdle /\ dl = dlIdle /\ fwp = fwpIdle

---------------------------------------------------------------------------
(* Specification SpecCmd: calls of send_cmd on caller-supplied byte slices *)

\* Longest slice handed to send_cmd, and the number of calls in a session
MaxCmdInput == 18
MaxSends == 1

\* Slices of every length up to MaxCmdInput, of non-zero bytes, so that the
\* padding is told from the payload
CmdInputs ==
    { [i \in 1..n |-> ((b + i) % 255) + 1] : n \in 0..MaxCmdInput, b \in {0, 100} }

InitCmd ==
    /\ build = buildIdle /\ wire = <<>> /\ LateIdle /\ em100 = em100Idle
    /\ sc = scIdle /\ dcfg = dcfgIdle /\ fwv = fwvIdle
    /\ sct = sctIdle /\ sd = sdIdle /\ dev = devIdle
    /\ exit_requested = FALSE /\ rx = rxIdle /\ TraceIdle /\ OpIdle

\* One call of send_cmd(data): the transfer is submitted and completes with o
SendCmd ==
    /\ sc.pc = "idle"
    /\ Len(wire) < MaxSends
    /\ \E data \in CmdInputs, o \in OutOutcomes(CMD_LEN) :
          /\ wire' = Append(wire, OutXfer(send_cmd_buf(data), o))
          /\ sc' = [pc |-> "done", data |-> data, res |-> send_cmd_result(o)]
    /\ UNCHANGED <<build, lateVars, em100, dcfg, fwv, sct, sd, dev, exit_requested, rx, traceVars, opVars>>

\* The caller takes the result
SendCmdReturn ==
    /\ sc.pc = "done"
    /\ sc' = [sc EXCEPT !.pc = "idle"]
    /\ UNCHANGED <<build, lateVars, wire, em100, dcfg, fwv, sct, sd, dev, exit_requested, rx, traceVars, opVars>>

NextCmd == SendCmd \/ SendCmdReturn

SpecCmd == InitCmd /\ [][NextCmd]_vars

\* The first 16 bytes of d, or d followed by zero bytes up to 16
Truncate16Pad(d) ==
    IF Len(d) >= 16 THEN SubSeq(d, 1, 16) ELSE d \o Zeros(16 - Len(d))

\* C1: every call of send_cmd submits exactly one OUT transfer, of exactly 16
\* bytes: the input cut to its first 16 bytes or followed by zero bytes up to
\* 16; it returns Ok only if the endpoint reports 16 bytes written, and an
\* error otherwise.
C1_SendCmdSixteenBytes ==
    [][ (sc.pc = "idle" /\ sc'.pc = "done") =>
          /\ Len(wire') = Len(wire) + 1
          /\ SubSeq(wire', 1, Len(wire)) = wire
          /\ LET e == wire'[Len(wire')]
             IN  /\ e.ep = "out"
                 /\ Len(e.data) = 16
                 /\ e.data = Truncate16Pad(sc'.data)
                 /\ (sc'.res = "Ok") <=> (e.status = "ok" /\ e.actual_len = 16)
                 /\ sc'.res \in {"Ok", "UsbTransfer", "Communication"} ]_vars

\* A call returned Ok for an input longer than 16 bytes
C1_Witness ==
    /\ sc.pc = "done" /\ sc.res = "Ok" /\ Len(sc.data) > 16
    /\ wire[Len(wire)].data = SubSeq(sc.data, 1, 16)

---------------------------------------------------------------------------
(* chips::parse_dcfg.  Byte offsets are those of the source (from 0); the  *)
(* k-th byte of a slice is element k + 1 of the sequence.  A result is     *)
(* Ok with the chip, the structured error InvalidConfig, or a panic of the *)
(* Rust runtime (a slice index out of range, an overflow with checks on).  *)

NUM_INIT_ENTRIES == 212
DEDIPROG_CFG_PRO_SIZE == 176
DEDIPROG_CFG_PRO_SIZE_SFDP == 256
DEDIPROG_CFG_PRO_SIZE_SRST == 144
DEDIPROG_CFG_MAGIC == 1734763332
DEDIPROG_SFDP_MAGIC == 1346651731
DEDIPROG_SRST_MAGIC == 1414746707
DEDIPROG_PROT_MAGIC == 1414484560
INIT_SEQUENCE_REGISTER_OFFSET_0 == 8960
INIT_SEQUENCE_REGISTER_OFFSET_1 == 4352

At(data, i) == data[i + 1]

\* LittleEndian::read_u16(&data[i..i + 2])
read_u16(data, i) == At(data, i) + 256 * At(data, i + 1)

\* LittleEndian::read_u32(&data[i..i + 4])
read_u32(data, i) ==
    At(data, i) + 256 * At(data, i + 1) + 65536 * At(data, i + 2)
        + 16777216 * At(data, i + 3)

\* usize::saturating_sub
saturating_sub(a, b) == IF a >= b THEN a - b ELSE 0

\* The bytes from offset `from` up to the first zero byte or the end of data
RECURSIVE c_string(_, _)
c_string(data, from) ==
    IF from >= Len(data) \/ At(data, from) = 0 THEN <<>>
    ELSE <<At(data, from)>> \o c_string(data, from + 1)

\* chip.init[init_len] = rec; init_len += 1, on the array of 212 entries
Emit(init, rec) ==
    IF Len(init) >= NUM_INIT_ENTRIES
    THEN [status |-> "panic", init |-> init]
    ELSE [status |-> "ok", init |-> Append(init, rec)]

\* A mutation of after_sentinel: every sentinel switches the offset, back too
after_sentinel_toggle(reg_offset) ==
    IF reg_offset = INIT_SEQUENCE_REGISTER_OFFSET_0
    THEN INIT_SEQUENCE_REGISTER_OFFSET_1
    ELSE INIT_SEQUENCE_REGISTER_OFFSET_0

\* reg_offset = INIT_SEQUENCE_REGISTER_OFFSET_1, at a sentinel
after_sentinel(reg_offset) == INIT_SEQUENCE_REGISTER_OFFSET_1

\* The walk of the primary region (the while loop of parse_dcfg)
RECURSIVE parse_primary(_, _, _, _, _)
parse_primary(data, pos, reg_offset, init, overflow_checks) ==
    IF ~(pos + 4 <= DEDIPROG_CFG_PRO_SIZE /\ Len(init) < NUM_INIT_ENTRIES)
    THEN [status |-> "ok", init |-> init]
    ELSE LET value == read_u16(data, pos)
             reg   == read_u16(data, pos + 2)
         IN  IF value = 65535 /\ reg = 65535
             THEN parse_primary(data, pos + 4, after_sentinel(reg_offset),
                                init, overflow_checks)
             ELSE IF reg + reg_offset > 65535 /\ overflow_checks
             THEN [status |-> "panic", init |-> init]
             ELSE LET full_reg == (reg + reg_offset) % 65536
                      be_value == to_be_bytes16(value)
                      be_reg   == to_be_bytes16(full_reg)
                      rec == <<be_reg[1], be_reg[2], be_value[1], be_value[2]>>
                  IN  parse_primary(data, pos + 4, reg_offset,
                                    Append(init, rec), overflow_checks)

\* The for loop of parse_sfdp and the last loop of parse_srst: one record
\* [0x23, tag, data[i + 1], data[i]] for i = from, from + 2, ... below `to`,
\* until the array is full.  `base` is the offset of the payload in the file.
RECURSIVE emit_words(_, _, _, _, _, _)
emit_words(data, base, i, to, tag, init) ==
    IF i >= to \/ Len(init) >= NUM_INIT_ENTRIES THEN init
    ELSE emit_words(data, base, i + 2, to, tag,
                    Append(init, <<35, tag, At(data, base + i + 1), At(data, base + i)>>))

\* parse_sfdp(&data[ptr..], &mut chip, init_len)
parse_sfdp(data, ptr, init) ==
    IF Len(data) - ptr < DEDIPROG_CFG_PRO_SIZE_SFDP
    THEN [status |-> "InvalidConfig", msg |-> "SFDP data too small", init |-> init]
    ELSE LET pre == Emit(init, <<35, 201, 0, 1>>)
         IN  IF pre.status = "panic"
             THEN [status |-> "panic", msg |-> "index out of bounds", init |-> init]
             ELSE [status |-> "ok", msg |-> "",
                   init |-> emit_words(data, ptr, 0, DEDIPROG_CFG_PRO_SIZE_SFDP,
                                       193, pre.init)]

\* The three entries parse_srst emits when the payload does not start with PROT
RECURSIVE srst_pre(_, _, _, _)
srst_pre(data, ptr, j, init) ==
    IF j >= 3 \/ Len(init) >= NUM_INIT_ENTRIES THEN init
    ELSE srst_pre(data, ptr, j + 1,
                  Append(init, <<35, At(data, ptr + j * 4 + 2),
                                 At(data, ptr + j * 4 + 1), At(data, ptr + j * 4)>>))

\* A mutation of parse_srst: the four bytes after the three entries are not
\* skipped
parse_srst_marker_kept(data, ptr, init) ==
    IF Len(data) - ptr < DEDIPROG_CFG_PRO_SIZE_SRST
    THEN [status |-> "InvalidConfig", msg |-> "SRST data too small", init |-> init]
    ELSE LET magic == read_u32(data, ptr)
             init1 == IF magic # DEDIPROG_PROT_MAGIC
                      THEN srst_pre(data, ptr, 0, init) ELSE init
             start_offset == IF magic # DEDIPROG_PROT_MAGIC THEN 12 ELSE 4
             init2 == IF Len(init1) < NUM_INIT_ENTRIES
                      THEN Append(init1, <<35, 196, 0, 1>>) ELSE init1
         IN  [status |-> "ok", msg |-> "",
              init |-> emit_words(data, ptr, start_offset,
                                  DEDIPROG_CFG_PRO_SIZE_SRST, 197, init2)]

\* parse_srst(&data[ptr..], &mut chip, init_len)
parse_srst(data, ptr, init) ==
    IF Len(data) - ptr < DEDIPROG_CFG_PRO_SIZE_SRST
    THEN [status |-> "InvalidConfig", msg |-> "SRST data too small", init |-> init]
    ELSE LET magic == read_u32(data, ptr)
             init1 == IF magic # DEDIPROG_PROT_MAGIC
                      THEN srst_pre(data, ptr, 0, init) ELSE init
             start_offset == IF magic # DEDIPROG_PROT_MAGIC THEN 16 ELSE 4
             init2 == IF Len(init1) < NUM_INIT_ENTRIES
                      THEN Append(init1, <<35, 196, 0, 1>>) ELSE init1
         IN  [status |-> "ok", msg |-> "",
              init |-> emit_words(data, ptr, start_offset,
                                  DEDIPROG_CFG_PRO_SIZE_SRST, 197, init2)]

\* The loop over the extra sections (SFDP, SRST) after the primary region
RECURSIVE parse_sections(_, _, _, _)
parse_sections(data, ptr, length, init) ==
    IF length < 4 THEN [status |-> "ok", msg |-> "", init |-> init]
    ELSE LET magic == read_u32(data, ptr)
         IN  IF magic = DEDIPROG_SFDP_MAGIC
             THEN LET r == parse_sfdp(data, ptr + 4, init)
                  IN  IF r.status # "ok" THEN r
                      ELSE parse_sections(data, ptr + 4 + DEDIPROG_CFG_PRO_SIZE_SFDP,
                               saturating_sub(length - 4, DEDIPROG_CFG_PRO_SIZE_SFDP),
                               r.init)
             ELSE IF magic = DEDIPROG_SRST_MAGIC
             THEN LET r == parse_srst(data, ptr + 4, init)
                  IN  IF r.status # "ok" THEN r
                      ELSE parse_sections(data, ptr + 4 + DEDIPROG_CFG_PRO_SIZE_SRST,
                               saturating_sub(length - 4, DEDIPROG_CFG_PRO_SIZE_SRST),
                               r.init)
             ELSE [status |-> "ok", msg |-> "", init |-> init]

DcfgErr(msg) == [status |-> "InvalidConfig", msg |-> msg]
DcfgPanic(msg) == [status |-> "panic", msg |-> msg]

\* parse_dcfg(data)
parse_dcfg(data, overflow_checks) ==
    IF Len(data) < DEDIPROG_CFG_PRO_SIZE THEN DcfgErr("File too small")
    ELSE IF read_u32(data, 0) # DEDIPROG_CFG_MAGIC THEN DcfgErr("Invalid magic number")
    ELSE IF read_u16(data, 6) # 1 \/ read_u16(data, 4) # 1 THEN DcfgErr("Invalid version")
    ELSE LET init_offset == read_u32(data, 8)
             size == read_u32(data, 12)
             vendor_offset == read_u32(data, 16)
             chip_name_offset == read_u32(data, 20)
             vendor == c_string(data, vendor_offset)
             name == c_string(data, chip_name_offset)
             prim == parse_primary(data, init_offset, INIT_SEQUENCE_REGISTER_OFFSET_0,
                                   <<>>, overflow_checks)
         IN  IF prim.status = "panic" THEN DcfgPanic("attempt to add with overflow")
             ELSE LET sec == parse_sections(data, DEDIPROG_CFG_PRO_SIZE,
                                            Len(data) - DEDIPROG_CFG_PRO_SIZE, prim.init)
                  IN  IF sec.status = "panic" THEN DcfgPanic(sec.msg)
                      ELSE IF sec.status # "ok" THEN DcfgErr(sec.msg)
                      ELSE [status |-> "Ok",
                            chip |-> [vendor |-> vendor, name |-> name, size |-> size,
                                      init |-> sec.init, init_len |-> Len(sec.init)]]

---------------------------------------------------------------------------
(* Specification SpecDcfg: parse_dcfg applied to chip-config files *)

\* The most extra sections that follow the primary region of an input file
MaxSections == 3

Fill(j) == (j * 7 + 3) % 128

FillBytes(n, seed) == [j \in 1..n |-> Fill(j + seed)]

\* Byte k of the 176-byte primary region of the input file d: the header
\* (magic, version 1.1, init offset, size 0x200000, the offsets of the two
\* strings), "Winbond", "W25Q16", and from offset 40 the (value, reg) pairs.
PrimaryByte(d, k) ==
    IF k < 4 THEN (IF d.hdr = "badmagic" THEN 0 ELSE <<68, 99, 102, 103>>[k + 1])
    ELSE IF k < 8 THEN (IF d.hdr = "badver" /\ k = 4 THEN 2 ELSE <<1, 0, 1, 0>>[k - 3])
    ELSE IF k < 12 THEN (IF k = 8 THEN d.init_offset ELSE 0)
    ELSE IF k < 16 THEN <<0, 0, 32, 0>>[k - 11]
    ELSE IF k < 20 THEN <<24, 0, 0, 0>>[k - 15]
    ELSE IF k < 24 THEN <<32, 0, 0, 0>>[k - 19]
    ELSE IF k < 32 THEN <<87, 105, 110, 98, 111, 110, 100, 0>>[k - 23]
    ELSE IF k < 40 THEN <<87, 50, 53, 81, 49, 54, 0, 0>>[k - 31]
    ELSE IF d.pat = "volt" /\ k < 56
         THEN <<255, 255, 255, 255, 8, 7, 4, 0, 255, 255, 255, 255, 228, 12, 4, 0>>[k - 39]
    ELSE IF d.pat = "wrap" /\ k < 44 THEN <<1, 0, 0, 255>>[k - 39]
    ELSE (k % 100) + 1

\* One extra section: its magic and its payload
SectionBytes(kind) ==
    CASE kind = "SFDP"  -> <<83, 70, 68, 80>> \o FillBytes(256, 0)
      [] kind = "SRSTP" -> <<83, 82, 83, 84>> \o <<80, 82, 79, 84>> \o FillBytes(140, 5)
      [] kind = "SRSTN" -> <<83, 82, 83, 84>> \o FillBytes(12, 9) \o <<80, 82, 79, 84>>
                              \o FillBytes(128, 11)
      [] OTHER          -> <<74, 85, 78, 75>> \o FillBytes(8, 2)

RECURSIVE SectionsBytes(_)
SectionsBytes(secs) ==
    IF secs = <<>> THEN <<>> ELSE SectionBytes(Head(secs)) \o SectionsBytes(Tail(secs))

\* The input file d, its last d.cut bytes missing
DcfgFile(d) ==
    LET all == [i \in 1..DEDIPROG_CFG_PRO_SIZE |-> PrimaryByte(d, i - 1)]
                   \o SectionsBytes(d.secs)
    IN  SubSeq(all, 1, Len(all) - d.cut)

SectionKinds == {"SFDP", "SRSTP", "SRSTN", "JUNK"}

DcfgInputs ==
    { [hdr |-> "ok", init_offset |-> io, pat |-> p, secs |-> s, cut |-> c] :
        io \in {0, 40, 176}, p \in {"plain", "volt", "wrap"},
        s \in UNION { [1..n -> SectionKinds] : n \in 0..MaxSections }, c \in {0, 1} }
    \cup
    { [hdr |-> h, init_offset |-> 40, pat |-> "plain", secs |-> <<>>, cut |-> 0] :
        h \in {"badmagic", "badver"} }

InitDcfg ==
    /\ build \in [overflow_checks : BOOLEAN]
    /\ \E d \in DcfgInputs :
          dcfg = [pc |-> "idle", data |-> DcfgFile(d), res |-> [status |-> "none"]]
    /\ wire = <<>> /\ LateIdle /\ em100 = em100Idle /\ sc = scIdle /\ fwv = fwvIdle
    /\ sct = sctIdle /\ sd = sdIdle /\ dev = devIdle
    /\ exit_requested = FALSE /\ rx = rxIdle /\ TraceIdle /\ OpIdle

\* One call of parse_dcfg on the file
ParseDcfg ==
    /\ dcfg.pc = "idle"
    /\ dcfg' = [dcfg EXCEPT !.pc = "done",
                            !.res = parse_dcfg(dcfg.data, build.overflow_checks)]
    /\ UNCHANGED <<build, lateVars, wire, em100, sc, fwv, sct, sd, dev, exit_requested, rx, traceVars, opVars>>

NextDcfg == ParseDcfg

SpecDcfg == InitDcfg /\ [][NextDcfg]_vars

\* C2: on every input buffer parse_dcfg ends by returning Ok or a structured
\* error, never by a panic, and a chip it returns has init_len <= 212.
C2_ParseDcfgTotal ==
    dcfg.pc = "done" =>
        /\ dcfg.res.status \in {"Ok", "InvalidConfig"}
        /\ dcfg.res.status = "Ok" => dcfg.res.chip.init_len <= NUM_INIT_ENTRIES

---------------------------------------------------------------------------
(* firmware::validate_firmware.  The validator reads the length of the     *)
(* file and bytes 0 .. 0x47 of it, so a file is its length and its first   *)
(* min(length, 0x48) bytes.                                                *)

FW_HEADER_READ == 72

\* b"em100pro", b"EM100Pro-G2", b"WFPD"
MAGIC_V1 == <<101, 109, 49, 48, 48, 112, 114, 111>>
MAGIC_V2 == <<69, 77, 49, 48, 48, 80, 114, 111, 45, 71, 50>>
MAGIC_WFPD == <<87, 70, 80, 68>>

\* The bytes head[from .. to) of a slice
Slice(head, from, to) == SubSeq(head, from + 1, to)

\* get_le32(&fw[i..])
get_le32(head, i) == read_u32(head, i)

\* put_le32, as the four bytes written
put_le32(val) ==
    <<val % 256, (val \div 256) % 256, (val \div 65536) % 256, (val \div 16777216) % 256>>

\* String::from_utf8_lossy(..).trim_end_matches('\0')
RECURSIVE trim_end_nul(_)
trim_end_nul(str) ==
    IF str # <<>> /\ str[Len(str)] = 0 THEN trim_end_nul(SubSeq(str, 1, Len(str) - 1))
    ELSE str

\* The negation of the size test of validate_firmware
fw_lengths_valid(fpga_len, mcu_len) ==
    ~(fpga_len < 256 \/ mcu_len < 256 \/ fpga_len > 1048576 \/ mcu_len > 983040)

FwInvalid(msg) == [status |-> "InvalidFirmware", msg |-> msg]

\* validate_firmware(em100, fw)
validate_firmware(hw_version, fw) ==
    IF hw_version \in {"Em100ProEarly", "Em100Pro"}
       /\ (\/ fw.len < FW_HEADER_READ
           \/ Slice(fw.head, 0, 8) # MAGIC_V1
           \/ Slice(fw.head, 40, 44) # MAGIC_WFPD)
    THEN FwInvalid("Not an EM100Pro (original) firmware file.")
    ELSE IF hw_version = "Em100ProG2"
       /\ (\/ fw.len < FW_HEADER_READ
           \/ Slice(fw.head, 0, 11) # MAGIC_V2
           \/ Slice(fw.head, 40, 44) # MAGIC_WFPD)
    THEN FwInvalid("Not an EM100Pro-G2 firmware file.")
    ELSE IF hw_version \notin {"Em100ProEarly", "Em100Pro", "Em100ProG2"}
    THEN [status |-> "UnsupportedHardware", msg |-> hw_version]
    ELSE LET fpga_offset == get_le32(fw.head, 56)
             fpga_len    == get_le32(fw.head, 60)
             mcu_offset  == get_le32(fw.head, 64)
             mcu_len     == get_le32(fw.head, 68)
             mcu_version  == trim_end_nul(Slice(fw.head, 20, 30))
             fpga_version == trim_end_nul(Slice(fw.head, 30, 40))
         IN  IF ~fw_lengths_valid(fpga_len, mcu_len)
             THEN FwInvalid("Firmware file not valid.")
             ELSE [status |-> "Ok",
                   info |-> [mcu_version |-> mcu_version, fpga_version |-> fpga_version,
                             fpga_offset |-> fpga_offset, fpga_len |-> fpga_len,
                             mcu_offset |-> mcu_offset, mcu_len |-> mcu_len]]

---------------------------------------------------------------------------
(* Specification SpecFw: validate_firmware applied to firmware containers *)

HwVersions == {"Em100ProEarly", "Em100Pro", "Em100ProG2", "Unknown"}

\* The header of a container: the magic, the version strings "2.27" and
\* "0.85", WFPD (or not), and the four little-endian fields at 0x38
FwHeader(d) ==
    LET magic == CASE d.magic = "v1" -> MAGIC_V1 \o Zeros(12)
                   [] d.magic = "v2" -> MAGIC_V2 \o Zeros(9)
                   [] OTHER -> Zeros(20)
    IN  magic \o <<50, 46, 50, 55>> \o Zeros(6) \o <<48, 46, 56, 53>> \o Zeros(6)
          \o (IF d.wfpd THEN MAGIC_WFPD ELSE Zeros(4)) \o Zeros(12)
          \o put_le32(d.fpga_offset) \o put_le32(d.fpga_len)
          \o put_le32(d.mcu_offset) \o put_le32(d.mcu_len)

\* The container d as a file: whole, or cut short inside its header
FwFile(d) ==
    LET len == IF d.whole THEN 256 + d.fpga_len + d.mcu_len ELSE FW_HEADER_READ - 1
    IN  [len |-> len, head |-> SubSeq(FwHeader(d), 1, Min(len, FW_HEADER_READ))]

FwInputs ==
    { [magic |-> m, wfpd |-> w, whole |-> wh, fpga_offset |-> fo, fpga_len |-> fl,
       mcu_offset |-> IF mo = 0 THEN 256 + fl ELSE mo, mcu_len |-> ml] :
        m \in {"v1", "v2", "bad"}, w \in BOOLEAN, wh \in BOOLEAN,
        fo \in {256, 512}, fl \in {255, 256, 512, 1048576, 1048577},
        mo \in {0, 256}, ml \in {100, 255, 256, 983040, 983041} }

InitFw ==
    /\ em100 \in [mcu : {0}, fpga : {0}, hw_version : HwVersions, max_packet_size : {512}]
    /\ \E d \in FwInputs :
          fwv = [pc |-> "idle", fw |-> FwFile(d), res |-> [status |-> "none"]]
    /\ build = buildIdle /\ wire = <<>> /\ LateIdle /\ sc = scIdle /\ dcfg = dcfgIdle
    /\ sct = sctIdle /\ sd = sdIdle /\ dev = devIdle
    /\ exit_requested = FALSE /\ rx = rxIdle /\ TraceIdle /\ OpIdle

\* One call of validate_firmware(em100, fw)
ValidateFirmware ==
    /\ fwv.pc = "idle"
    /\ fwv' = [fwv EXCEPT !.pc = "done",
                          !.res = validate_firmware(em100.hw_version, fwv.fw)]
    /\ UNCHANGED <<build, lateVars, wire, em100, sc, dcfg, sct, sd, dev, exit_requested, rx, traceVars, opVars>>

NextFw == ValidateFirmware

SpecFw == InitFw /\ [][NextFw]_vars

\* The fields of the header of a file, read as the format lays them out
HdrField(fw, k) ==
    fw.head[k + 1] + 256 * fw.head[k + 2] + 65536 * fw.head[k + 3]
        + 16777216 * fw.head[k + 4]

\* The file is a whole container for the hardware of the device: the magic
\* of the device's hardware version at 0, and WFPD at 0x28
FwForThisDevice ==
    /\ fwv.fw.len >= 72
    /\ \/ em100.hw_version \in {"Em100ProEarly", "Em100Pro"}
          /\ SubSeq(fwv.fw.head, 1, 8) = MAGIC_V1
       \/ em100.hw_version = "Em100ProG2" /\ SubSeq(fwv.fw.head, 1, 11) = MAGIC_V2
    /\ SubSeq(fwv.fw.head, 41, 44) = MAGIC_WFPD

\* The four invariants of a container
FwInvariants(fw) ==
    /\ HdrField(fw, 60) >= 256 /\ HdrField(fw, 60) <= 1048576
    /\ HdrField(fw, 68) >= 256 /\ HdrField(fw, 68) <= 983040
    /\ HdrField(fw, 56) = 256
    /\ HdrField(fw, 64) = 256 + HdrField(fw, 60)

\* C3: on a device whose hardware version matches the magic, validate_firmware
\* accepts every container that satisfies the four invariants (fpga_len in
\* [256, 0x100000], mcu_len in [256, 0xf0000], fpga_offset = 0x100, mcu_offset =
\* 0x100 + fpga_len) and rejects with InvalidFirmware every container that
\* violates one of them.
C3_ValidateFirmwareInvariants ==
    (fwv.pc = "done" /\ FwForThisDevice) =>
        IF FwInvariants(fwv.fw) THEN fwv.res.status = "Ok"
        ELSE fwv.res.status = "InvalidFirmware"

---------------------------------------------------------------------------
(* Em100::set_chip_type, with Em100::set_fpga_voltage and get_version      *)

\* A mutation of round_up_to_max_packet: rounding down
round_up_to_max_packet_floor(len, max_packet_size) ==
    (len \div max_packet_size) * max_packet_size

\* usb::round_up_to_max_packet: len.div_ceil(max_packet_size) * max_packet_size
round_up_to_max_packet(len, max_packet_size) ==
    div_ceil(len, max_packet_size) * max_packet_size

\* The log entry of one IN transfer: what was asked for and what came back
InXfer(requested_len, r) ==
    [ep |-> "in", requested_len |-> requested_len, status |-> r.status,
     actual_len |-> Len(r.data), data |-> r.data]

\* self.fpga & 0x8000 != 0
fpga_bit15(fpga) == (fpga \div 32768) % 2 = 1

\* let fpga_voltage = if self.fpga & 0x8000 != 0 { 1800 } else { 3300 }
fpga_voltage_of(fpga) == IF fpga_bit15(fpga) THEN 1800 ELSE 3300

\* The match on chip_voltage: 18, 33, or 0 for None
req_voltage(chip_voltage, fpga_voltage) ==
    IF chip_voltage \in {1601, 1800} /\ fpga_voltage = 3300 THEN 18
    ELSE IF chip_voltage = 3300 /\ fpga_voltage = 1800 THEN 33
    ELSE 0

\* chip.init.iter().take(chip.init_len)
init_entries(chip) == SubSeq(chip.init, 1, Min(chip.init_len, Len(chip.init)))

\* A mutation of scan_voltage: the loop without its break, so that the last
\* voltage-set entry decides
RECURSIVE scan_voltage_last(_, _, _)
scan_voltage_last(entries, i, fpga_voltage) ==
    IF i < 1 THEN 0
    ELSE IF entries[i][1] # 17 \/ entries[i][2] # 4
    THEN scan_voltage_last(entries, i - 1, fpga_voltage)
    ELSE req_voltage(be16(entries[i][3], entries[i][4]), fpga_voltage)

\* The first loop of set_chip_type from entry i on: skip the entries that are
\* not [0x11, 0x04, ..], decide on the first that is, and break
RECURSIVE scan_voltage(_, _, _)
scan_voltage(entries, i, fpga_voltage) ==
    IF i > Len(entries) THEN 0
    ELSE IF entries[i][1] # 17 \/ entries[i][2] # 4
    THEN scan_voltage(entries, i + 1, fpga_voltage)
    ELSE req_voltage(be16(entries[i][3], entries[i][4]), fpga_voltage)

\* A mutation of required_switch that scans from the end
required_switch_last(chip, fpga) ==
    scan_voltage_last(init_entries(chip), Len(init_entries(chip)), fpga_voltage_of(fpga))

\* The voltage code set_chip_type hands to set_fpga_voltage, 0 for none
required_switch(chip, fpga) ==
    scan_voltage(init_entries(chip), 1, fpga_voltage_of(fpga))

\* fpga::fpga_reconfigure
cmd_fpga_reconfigure == <<32, 0, 0, 0, 0, 0, 0, 0, 0, 0, 0, 0, 0, 0, 0, 0>>

\* The voltage-select command of set_fpga_voltage
cmd_fpga_voltage(voltage_code) ==
    <<36, 0, IF voltage_code = 18 THEN 7 ELSE 0, IF voltage_code = 18 THEN 128 ELSE 0>>
        \o Zeros(12)

\* system::get_version
cmd_get_version == <<16, 0, 0, 0, 0, 0, 0, 0, 0, 0, 0, 0, 0, 0, 0, 0>>

\* fpga::write_fpga_register
cmd_write_fpga_register(reg, val) ==
    <<35, reg, val \div 256, val % 256>> \o Zeros(12)

\* A mutation of final_registers: 0x10 written before 0xc4
final_registers_swapped == << <<16, 0>>, <<196, 1>>, <<129, 0>> >>

\* The three register writes that end set_chip_type, as <<reg, val>>
final_registers == << <<196, 1>>, <<16, 0>>, <<129, 0>> >>

\* usb::get_response: the first min(actual_len, length) bytes, or the error
get_response(length, r) ==
    IF r.status # "ok" THEN [status |-> "UsbTransfer", data |-> <<>>]
    ELSE [status |-> "Ok", data |-> SubSeq(r.data, 1, Min(Len(r.data), length))]

\* system::get_version on the response: the versions, or InvalidResponse
parse_version(data) ==
    IF Len(data) = 5 /\ data[1] = 4
    THEN [status |-> "Ok", mcu |-> be16(data[4], data[5]), fpga |-> be16(data[2], data[3])]
    ELSE [status |-> "InvalidResponse", mcu |-> 0, fpga |-> 0]

\* A mutation of switch_verdict: the answer of set_fpga_voltage is not looked at
switch_verdict_ignored(f, fpga) ==
    [f EXCEPT !.pc = IF f.chip.init_len > 0 /\ f.chip.init # <<>> THEN "replay" ELSE "fin",
              !.idx = 0,
              !.switch_ret = IF (IF fpga_bit15(fpga) THEN 18 ELSE 33) # f.req
                             THEN "false" ELSE "true"]

\* The end of set_fpga_voltage and what set_chip_type does with its answer:
\* false ends set_chip_type with OperationFailed, true goes on to the replay
switch_verdict(f, fpga) ==
    LET actual == IF fpga_bit15(fpga) THEN 18 ELSE 33
    IN  IF actual # f.req
        THEN [f EXCEPT !.pc = "done", !.switch_ret = "false", !.res = "OperationFailed"]
        ELSE [f EXCEPT !.pc = IF init_entries(f.chip) # <<>> THEN "replay" ELSE "fin",
                       !.idx = 0, !.switch_ret = "true"]

---------------------------------------------------------------------------
(* Specification SpecChip: one call of set_chip_type on a chip descriptor *)

\* The longest init list of an input chip
MaxInit == 3

\* The init records of the input chips: FPGA register writes, voltage-set
\* records for 1601, 1800, 2500 and 3300 mV, and a write to another register
\* of the 0x11 target
InitRecords ==
    { <<35, 196, 0, 1>>, <<35, 16, 0, 0>>, <<17, 5, 7, 8>>,
      <<17, 4, 6, 65>>, <<17, 4, 7, 8>>, <<17, 4, 9, 196>>, <<17, 4, 12, 228>> }

ChipInputs ==
    { [init |-> l, init_len |-> Len(l)] :
        l \in UNION { [1..n -> InitRecords] : n \in 0..MaxInit } }

\* What the device may answer to the version query: FPGA 0.85 in the 3.3 V
\* or the 1.8 V personality with MCU 2.27, a truncated answer, a failed transfer
VersionResponses ==
    { [status |-> "ok", data |-> <<4, 0, 85, 2, 27>>],
      [status |-> "ok", data |-> <<4, 128, 85, 2, 27>>],
      [status |-> "ok", data |-> <<4, 128>>],
      [status |-> "err", data |-> <<>>] }

InitChip ==
    /\ em100 \in [mcu : {539}, fpga : {85, 32853}, hw_version : {"Em100Pro"},
                  max_packet_size : {512}]
    /\ \E c \in ChipInputs : sct = [sctIdle EXCEPT !.chip = c]
    /\ build = buildIdle /\ wire = <<>> /\ LateIdle /\ sc = scIdle /\ dcfg = dcfgIdle
    /\ fwv = fwvIdle /\ sd = sdIdle /\ dev = devIdle
    /\ exit_requested = FALSE /\ rx = rxIdle /\ TraceIdle /\ OpIdle

\* set_chip_type is called: the voltage scan of the init list
SetChipTypeCall ==
    /\ sct.pc = "idle"
    /\ LET req == required_switch(sct.chip, em100.fpga)
       IN  sct' = [sct EXCEPT !.fpga_voltage = fpga_voltage_of(em100.fpga),
                              !.req = req, !.idx = 0,
                              !.pc = IF req # 0 THEN "reconf"
                                     ELSE IF init_entries(sct.chip) # <<>> THEN "replay"
                                     ELSE "fin"]
    /\ UNCHANGED <<build, lateVars, wire, em100, sc, dcfg, fwv, sd, dev, exit_requested, rx, traceVars, opVars>>

\* set_fpga_voltage: fpga::fpga_reconfigure(self)?
FpgaReconfigure ==
    /\ sct.pc = "reconf"
    /\ \E o \in OutOutcomes(CMD_LEN) :
          /\ wire' = Append(wire, OutXfer(send_cmd_buf(cmd_fpga_reconfigure), o))
          /\ sct' = IF send_cmd_result(o) = "Ok" THEN [sct EXCEPT !.pc = "vsel"]
                    ELSE [sct EXCEPT !.pc = "done", !.res = send_cmd_result(o)]
    /\ UNCHANGED <<build, lateVars, em100, sc, dcfg, fwv, sd, dev, exit_requested, rx, traceVars, opVars>>

\* set_fpga_voltage: the voltage-select command
FpgaVoltageSelect ==
    /\ sct.pc = "vsel"
    /\ \E o \in OutOutcomes(CMD_LEN) :
          /\ wire' = Append(wire, OutXfer(send_cmd_buf(cmd_fpga_voltage(sct.req)), o))
          /\ sct' = IF send_cmd_result(o) = "Ok" THEN [sct EXCEPT !.pc = "sleep"]
                    ELSE [sct EXCEPT !.pc = "done", !.res = send_cmd_result(o)]
    /\ UNCHANGED <<build, lateVars, em100, sc, dcfg, fwv, sd, dev, exit_requested, rx, traceVars, opVars>>

\* set_fpga_voltage: std::thread::sleep(Duration::from_secs(2))
FpgaSleep ==
    /\ sct.pc = "sleep"
    /\ wire' = Append(wire, Sleep(2))
    /\ sct' = [sct EXCEPT !.pc = "getver"]
    /\ UNCHANGED <<build, lateVars, em100, sc, dcfg, fwv, sd, dev, exit_requested, rx, traceVars, opVars>>

\* set_fpga_voltage: self.get_version().ok(), the command.  When it fails the
\* cached version stays and decides the answer.
GetVersionCmd ==
    /\ sct.pc = "getver"
    /\ \E o \in OutOutcomes(CMD_LEN) :
          /\ wire' = Append(wire, OutXfer(send_cmd_buf(cmd_get_version), o))
          /\ sct' = IF send_cmd_result(o) = "Ok" THEN [sct EXCEPT !.pc = "getver_resp"]
                    ELSE switch_verdict(sct, em100.fpga)
    /\ UNCHANGED <<build, lateVars, em100, sc, dcfg, fwv, sd, dev, exit_requested, rx, traceVars, opVars>>

\* set_fpga_voltage: self.get_version().ok(), the response, and the verdict
GetVersionResp ==
    /\ sct.pc = "getver_resp"
    /\ \E r \in VersionResponses :
          LET got == get_response(512, r)
              ver == IF got.status = "Ok" THEN parse_version(got.data)
                     ELSE [status |-> got.status, mcu |-> 0, fpga |-> 0]
              now == IF ver.status = "Ok"
                     THEN [em100 EXCEPT !.mcu = ver.mcu, !.fpga = ver.fpga]
                     ELSE em100
          IN  /\ wire' = Append(wire,
                    InXfer(round_up_to_max_packet(512, em100.max_packet_size), r))
              /\ em100' = now
              /\ sct' = switch_verdict(sct, now.fpga)
    /\ UNCHANGED <<build, lateVars, sc, dcfg, fwv, sd, dev, exit_requested, rx, traceVars, opVars>>

\* The second loop of set_chip_type: usb::send_cmd(self, entry)? for one entry
ReplayInit ==
    /\ sct.pc = "replay"
    /\ \E o \in OutOutcomes(CMD_LEN) :
          /\ wire' = Append(wire,
                OutXfer(send_cmd_buf(init_entries(sct.chip)[sct.idx + 1]), o))
          /\ sct' = IF send_cmd_result(o) # "Ok"
                    THEN [sct EXCEPT !.pc = "done", !.res = send_cmd_result(o)]
                    ELSE IF sct.idx + 1 < Len(init_entries(sct.chip))
                    THEN [sct EXCEPT !.idx = sct.idx + 1]
                    ELSE [sct EXCEPT !.pc = "fin", !.idx = 0]
    /\ UNCHANGED <<build, lateVars, em100, sc, dcfg, fwv, sd, dev, exit_requested, rx, traceVars, opVars>>

\* The three fpga::write_fpga_register calls that end set_chip_type, one each
WriteFinalRegister ==
    /\ sct.pc = "fin"
    /\ \E o \in OutOutcomes(CMD_LEN) :
          LET rv == final_registers[sct.idx + 1]
          IN  /\ wire' = Append(wire,
                    OutXfer(send_cmd_buf(cmd_write_fpga_register(rv[1], rv[2])), o))
              /\ sct' = IF send_cmd_result(o) # "Ok"
                        THEN [sct EXCEPT !.pc = "done", !.res = send_cmd_result(o)]
                        ELSE IF sct.idx + 1 < Len(final_registers)
                        THEN [sct EXCEPT !.idx = sct.idx + 1]
                        ELSE [sct EXCEPT !.pc = "done", !.res = "Ok"]
    /\ UNCHANGED <<build, lateVars, em100, sc, dcfg, fwv, sd, dev, exit_requested, rx, traceVars, opVars>>

NextChip ==
    \/ SetChipTypeCall \/ FpgaReconfigure \/ FpgaVoltageSelect \/ FpgaSleep
    \/ GetVersionCmd \/ GetVersionResp \/ ReplayInit \/ WriteFinalRegister

SpecChip == InitChip /\ [][NextChip]_vars

IsPrefix(a, b) == Len(a) <= Len(b) /\ a = SubSeq(b, 1, Len(a))

\* The commands of the session, when every entry of the log is an OUT transfer
WireData == [i \in 1..Len(wire) |-> wire[i].data]

\* The commands the device is to receive for a chip when no switch is needed:
\* each init record followed by twelve zero bytes, then the FPGA register
\* writes 0xc4 <- 1, 0x10 <- 0, 0x81 <- 0
ChipProgram(chip) ==
    [i \in 1..chip.init_len |-> chip.init[i] \o Zeros(12)]
        \o << <<35, 196, 0, 1>> \o Zeros(12), <<35, 16, 0, 0>> \o Zeros(12),
              <<35, 129, 0, 0>> \o Zeros(12) >>

\* C4: when no voltage switch is needed, set_chip_type sends the init records
\* in list order, each as one 16-byte command (the record, then zeros), and
\* then the register writes 0xc4 <- 1, 0x10 <- 0, 0x81 <- 0, and nothing else:
\* at every moment the traffic is a prefix of that sequence, and all of it
\* when set_chip_type returns Ok.
C4_ChipProgramExact ==
    (sct.pc # "idle" /\ sct.req = 0) =>
        /\ \A i \in 1..Len(wire) : wire[i].ep = "out" /\ Len(wire[i].data) = 16
        /\ IsPrefix(WireData, ChipProgram(sct.chip))
        /\ (sct.pc = "done" /\ sct.res = "Ok") => WireData = ChipProgram(sct.chip)

\* set_chip_type returned Ok without a switch for a list of three records,
\* one of them a voltage-set record
C4_Witness ==
    /\ sct.pc = "done" /\ sct.res = "Ok" /\ sct.req = 0 /\ sct.chip.init_len = 3
    /\ \E i \in 1..3 : sct.chip.init[i][1] = 17 /\ sct.chip.init[i][2] = 4
    /\ Len(wire) = 6

\* The indices of the voltage-set records [0x11, 0x04, v_hi, v_lo] of a chip
VoltageRecords(chip) ==
    { i \in 1..chip.init_len : chip.init[i][1] = 17 /\ chip.init[i][2] = 4 }

RecordVoltage(chip, i) == chip.init[i][3] * 256 + chip.init[i][4]

\* The switch the table of the spec asks for, for a chip voltage v and an
\* FPGA running the 1.8 V personality (bit 15 set) or the 3.3 V one
TableSwitch(v, bit15) ==
    IF v \in {1601, 1800} /\ ~bit15 THEN 18
    ELSE IF v = 3300 /\ bit15 THEN 33 ELSE 0

\* No FPGA-reconfigure (0x20) and no voltage-select (0x24) command was sent
NoSwitchTraffic ==
    \A i \in 1..Len(wire) : wire[i].ep = "out" => wire[i].data[1] \notin {32, 36}

\* The switch is what the session starts with: 0x20, then 0x24 carrying
\* (7, 0x80) for 1.8 V and zeros for 3.3 V
SwitchTraffic(code) ==
    /\ Len(wire) >= 1 => wire[1].ep = "out" /\ wire[1].data[1] = 32
    /\ Len(wire) >= 2 =>
          /\ wire[2].ep = "out" /\ wire[2].data[1] = 36
          /\ <<wire[2].data[3], wire[2].data[4]>> = IF code = 18 THEN <<7, 128>> ELSE <<0, 0>>

\* The FPGA version cached when set_chip_type was called is still the cached one
CachedFpgaUnchanged ==
    sct.pc \in {"reconf", "vsel", "sleep", "getver", "getver_resp"} \/ sct.req = 0

\* C5 as stated: the switch is invoked if and only if the init list contains
\* a voltage-set record whose voltage the table maps to a switch for the
\* cached FPGA personality.
C5_SwitchIffAnyVoltageRecord ==
    sct.pc # "idle" =>
        (sct.req # 0 <=>
            \E i \in VoltageRecords(sct.chip) :
                TableSwitch(RecordVoltage(sct.chip, i), sct.fpga_voltage = 1800) # 0)

\* C5, amended: the first voltage-set record of the init list decides.  The
\* switch is invoked if and only if there is one and the table maps its
\* voltage to a switch for the cached FPGA personality (1601 or 1800 with bit
\* 15 clear: to 1.8 V; 3300 with bit 15 set: to 3.3 V); otherwise no 0x20 and
\* no 0x24 command is sent.
C5_SwitchIffFirstVoltageRecord ==
    sct.pc # "idle" =>
        LET vs == VoltageRecords(sct.chip)
            first == CHOOSE i \in vs : \A j \in vs : i <= j
            want == IF vs = {} THEN 0
                    ELSE TableSwitch(RecordVoltage(sct.chip, first), sct.fpga_voltage = 1800)
        IN  /\ CachedFpgaUnchanged =>
                  (sct.fpga_voltage = 1800 <=> em100.fpga >= 32768)
            /\ sct.req = want
            /\ sct.req = 0 => NoSwitchTraffic
            /\ sct.req # 0 => SwitchTraffic(sct.req) /\ (sct.pc = "reconf" <=> wire = <<>>)

\* The switch to 1.8 V was invoked and its two commands sent, for a list
\* whose first voltage-set record is not its only one
C5_Witness ==
    /\ sct.req = 18 /\ Len(wire) >= 2 /\ wire[2].data[1] = 36
    /\ Cardinality(VoltageRecords(sct.chip)) >= 2

\* C6: if the voltage switch invoked by set_chip_type reports that the FPGA
\* personality after the switch is not the needed one, set_chip_type returns
\* an error (OperationFailed) and sends no init record and none of the three
\* final register writes: the traffic is the switch and the version query only.
C6_FailedSwitchSendsNothing ==
    sct.switch_ret = "false" =>
        /\ sct.pc = "done" /\ sct.res = "OperationFailed"
        /\ \A i \in 1..Len(wire) :
              wire[i].ep = "out" => wire[i].data[1] \in {32, 36, 16}
        /\ Len(wire) <= 5

\* The switch reported a mismatch for a chip with init records to replay
C6_Witness ==
    /\ sct.switch_ret = "false" /\ sct.pc = "done" /\ sct.chip.init_len = 3
    /\ Len(wire) = 5 /\ wire[5].ep = "in"

\* C7: after an FPGA-reconfigure command (opcode 0x20) has been sent, the next
\* thing the host does is the 2-second sleep: no USB transfer comes between.
C7_ReconfigureThenSleep ==
    \A i \in 1..Len(wire) :
        (wire[i].ep = "out" /\ wire[i].data[1] = 32 /\ wire[i].status = "ok"
            /\ wire[i].actual_len = 16 /\ i < Len(wire))
        => wire[i + 1].ep = "sleep"

---------------------------------------------------------------------------
(* sdram::write_sdram_with_progress and sdram::read_sdram_with_progress     *)
(*                                                                         *)
(* A chunk is up to 2 MiB, so the bytes of a buffer are not spelled out:   *)
(* a run of bytes is a piece [len, id, off], the len bytes from offset off *)
(* of the data the host passed to SDRAM call number id (id 0: bytes that   *)
(* are no written data), and a buffer is a sequence of pieces.             *)

TRANSFER_LENGTH == 2097152

Piece(len, id, off) == [len |-> len, id |-> id, off |-> off]

\* buffer[..k]
RECURSIVE Take(_, _)
Take(ps, k) ==
    IF k = 0 \/ ps = <<>> THEN <<>>
    ELSE IF Head(ps).len <= k
         THEN <<Head(ps)>> \o Take(Tail(ps), k - Head(ps).len)
         ELSE <<[Head(ps) EXCEPT !.len = k]>>

\* let cmd = [opcode, ((address >> 24) & 0xff) as u8, ..., (length & 0xff) as u8, 0 x 7]
sdram_cmd(opcode, address, length) ==
    <<opcode,
      (address \div 16777216) % 256, (address \div 65536) % 256,
      (address \div 256) % 256, address % 256,
      (length \div 16777216) % 256, (length \div 65536) % 256,
      (length \div 256) % 256, length % 256,
      0, 0, 0, 0, 0, 0, 0>>

\* A mutation of chunk_len: the whole remainder in one transfer
chunk_len_unbounded(length, bytes) == length - bytes

\* std::cmp::min(length - bytes_sent, TRANSFER_LENGTH)
chunk_len(length, bytes) == Min(length - bytes, TRANSFER_LENGTH)

\* A mutation of kept_len: all that came in is kept
kept_len_all(actual_len, want) == actual_len

\* let actual = std::cmp::min(completion.actual_len, bytes_to_read)
kept_len(actual_len, want) == Min(actual_len, want)

\* The log entry of one OUT transfer of data[off .. off + len] of call id
OutBulk(id, off, len, o) ==
    [ep |-> "out", ext |-> Piece(len, id, off), status |-> o.status,
     actual_len |-> o.actual_len]

\* The log entry of one IN transfer into a buffer of requested_len bytes
InBulk(requested_len, r) ==
    [ep |-> "in", requested_len |-> requested_len, status |-> r.status,
     actual_len |-> r.actual_len, pieces |-> r.pieces]

\* The SDRAM results: Ok, the transport error of a failed transfer, the
\* Communication error of send_cmd, and the Communication error
\* "SDRAM write failed: sent {} of {} bytes" / "SDRAM read failed: read ..."
SdOk == [status |-> "Ok", what |-> "", done |-> 0, total |-> 0]
SdUsbTransfer == [status |-> "UsbTransfer", what |-> "", done |-> 0, total |-> 0]
SdHeaderFailed(r) == [status |-> r, what |-> "send_cmd", done |-> 0, total |-> 0]
SdShort(done, total) ==
    [status |-> "Communication", what |-> "sdram", done |-> done, total |-> total]

\* A mutation of sdram_finish: the totals are not compared
sdram_finish_unchecked(bytes, length) == SdOk

\* if bytes != length { return Err(Communication(..)) } Ok(..)
sdram_finish(bytes, length) == IF bytes # length THEN SdShort(bytes, length) ELSE SdOk

(* The device: on a header it takes the address from bytes 1..4 and starts *)
(* at it; it stores the bytes of an OUT transfer at its cursor, and        *)
(* answers an IN transfer with the bytes at its cursor.                    *)

be32(b, i) == ((b[i] * 256 + b[i + 1]) * 256 + b[i + 2]) * 256 + b[i + 3]

dev_header(d, cmd) ==
    [d EXCEPT !.mode = IF cmd[1] = 64 THEN "write" ELSE "read", !.cursor = be32(cmd, 2)]

\* The newest stored run first
dev_store(d, n, id, off) ==
    IF n = 0 THEN d
    ELSE [d EXCEPT !.mem = <<[addr |-> d.cursor, len |-> n, id |-> id, off |-> off]>> \o @,
                   !.cursor = @ + n]

\* The n bytes of device memory from address a, as pieces
RECURSIVE dev_load(_, _, _)
dev_load(mem, a, n) ==
    IF n = 0 THEN <<>>
    ELSE LET cov == { i \in 1..Len(mem) : mem[i].addr <= a /\ a < mem[i].addr + mem[i].len }
             top == CHOOSE i \in cov : \A j \in cov : i <= j
             newer == IF cov = {} THEN 1..Len(mem) ELSE 1..(top - 1)
             stops == { mem[j].addr : j \in { j \in newer : mem[j].addr > a } }
                        \cup { IF cov = {} THEN a + n
                               ELSE Min(a + n, mem[top].addr + mem[top].len) }
             stop == CHOOSE x \in stops : \A y \in stops : x <= y
             k == Min(stop - a, n)
             piece == IF cov = {} THEN Piece(k, 0, 0)
                      ELSE Piece(k, mem[top].id, mem[top].off + (a - mem[top].addr))
         IN  <<piece>> \o dev_load(mem, a + k, n - k)

\* What the IN endpoint may report when the host wants want bytes and asks
\* for requested_len: the bytes wanted, the bytes wanted and filler up to the
\* length asked for, one byte less, nothing, or a failed transfer.
InOutcomes(d, want, requested_len) ==
    { [status |-> "ok", actual_len |-> n, pieces |-> dev_load(d.mem, d.cursor, n)] :
          n \in {want, IF want > 0 THEN want - 1 ELSE 0, 0} }
      \cup { [status |-> "ok", actual_len |-> requested_len,
              pieces |-> dev_load(d.mem, d.cursor, want)
                            \o <<Piece(requested_len - want, 0, 0)>>] :
             x \in IF requested_len > want THEN {0} ELSE {} }
      \cup { [status |-> "err", actual_len |-> 0, pieces |-> <<>>] }

---------------------------------------------------------------------------
(* SDRAM transfers on their own: up to MaxSdramCalls calls in a session,   *)
(* the next one made when the one before returned Ok.                      *)

MaxSdramCalls == 2

SdramAddresses == {0, 16909060}

SdramLengths == {0, 1, 255, 256, 257, 2097152, 2097153, 3145728}

MaxPacketSizes == {64, 512}

InitSdram ==
    /\ build = buildIdle /\ wire = <<>> /\ LateIdle /\ sc = scIdle /\ dcfg = dcfgIdle
    /\ fwv = fwvIdle /\ sct = sctIdle /\ sd = sdIdle /\ dev = devIdle
    /\ exit_requested = FALSE /\ rx = rxIdle /\ TraceIdle /\ OpIdle
    /\ em100 \in [mcu : {0}, fpga : {0}, hw_version : {"Em100Pro"},
                  max_packet_size : MaxPacketSizes]

\* A call of write_sdram_with_progress(em100, data, address, progress) with
\* data.len() = length, or of read_sdram_with_progress(em100, address, length, ..)
SdramCall ==
    /\ sd.pc = "idle" \/ (sd.pc = "done" /\ sd.res.status = "Ok")
    /\ sd.id < MaxSdramCalls
    /\ \E op \in {"write", "read"}, address \in SdramAddresses, length \in SdramLengths :
          sd' = [sdIdle EXCEPT !.pc = "header", !.op = op, !.address = address,
                               !.length = length, !.id = sd.id + 1, !.base = Len(wire)]
    /\ UNCHANGED <<build, lateVars, wire, em100, sc, dcfg, fwv, sct, dev, exit_requested, rx, traceVars, opVars>>

\* usb::send_cmd(em100, &cmd)?; and, for no data at all, the return
SdramHeader ==
    /\ sd.pc = "header"
    /\ \E o \in OutOutcomes(CMD_LEN) :
          LET cmd == send_cmd_buf(sdram_cmd(IF sd.op = "write" THEN 64 ELSE 65,
                                            sd.address, sd.length))
              r == send_cmd_result(o)
          IN  /\ wire' = Append(wire, OutXfer(cmd, o))
              /\ IF r # "Ok"
                 THEN /\ sd' = [sd EXCEPT !.pc = "done", !.res = SdHeaderFailed(r)]
                      /\ dev' = dev
                 ELSE /\ dev' = dev_header(dev, cmd)
                      /\ sd' = IF sd.length > 0 THEN [sd EXCEPT !.pc = "loop"]
                               ELSE [sd EXCEPT !.pc = "done", !.res = sdram_finish(0, sd.length)]
    /\ UNCHANGED <<build, lateVars, em100, sc, dcfg, fwv, sct, exit_requested, rx, traceVars, opVars>>

\* A mutation of sdram_after_chunk: the progress callback is not called
sdram_after_chunk_silent(f, want, actual, got) ==
    LET bytes == f.bytes + actual
        g == [f EXCEPT !.bytes = bytes, !.data = @ \o got]
    IN  IF actual < want \/ ~(bytes < f.length)
        THEN [g EXCEPT !.pc = "done", !.res = sdram_finish(bytes, f.length)]
        ELSE g

\* What follows a chunk of which actual bytes were counted: the progress
\* callback, the break on a short chunk, the loop condition and the return
sdram_after_chunk(f, want, actual, got) ==
    LET bytes == f.bytes + actual
        g == [f EXCEPT !.bytes = bytes, !.data = @ \o got,
                       !.progress = Append(@, <<bytes, f.length>>)]
    IN  IF actual < want \/ ~(bytes < f.length)
        THEN [g EXCEPT !.pc = "done", !.res = sdram_finish(bytes, f.length)]
        ELSE g

\* One turn of the loop of write_sdram_with_progress
SdramWriteChunk ==
    /\ sd.pc = "loop" /\ sd.op = "write"
    /\ LET bytes_to_send == chunk_len(sd.length, sd.bytes)
       IN  \E o \in OutOutcomes(bytes_to_send) :
              /\ wire' = Append(wire, OutBulk(sd.id, sd.bytes, bytes_to_send, o))
              /\ IF o.status # "ok"
                 THEN /\ sd' = [sd EXCEPT !.pc = "done", !.res = SdUsbTransfer]
                      /\ dev' = dev
                 ELSE /\ sd' = sdram_after_chunk(sd, bytes_to_send, o.actual_len, <<>>)
                      /\ dev' = dev_store(dev, o.actual_len, sd.id, sd.bytes)
    /\ UNCHANGED <<build, lateVars, em100, sc, dcfg, fwv, sct, exit_requested, rx, traceVars, opVars>>

\* One turn of the loop of read_sdram_with_progress
SdramReadChunk ==
    /\ sd.pc = "loop" /\ sd.op = "read"
    /\ LET bytes_to_read == chunk_len(sd.length, sd.bytes)
           requested_len == round_up_to_max_packet(bytes_to_read, em100.max_packet_size)
       IN  \E r \in InOutcomes(dev, bytes_to_read, requested_len) :
              /\ wire' = Append(wire, InBulk(requested_len, r))
              /\ IF r.status # "ok"
                 THEN /\ sd' = [sd EXCEPT !.pc = "done", !.res = SdUsbTransfer]
                      /\ dev' = dev
                 ELSE LET actual == kept_len(r.actual_len, bytes_to_read)
                      IN  /\ sd' = sdram_after_chunk(sd, bytes_to_read, actual,
                                                     Take(r.pieces, actual))
                          /\ dev' = [dev EXCEPT !.cursor = @ + actual]
    /\ UNCHANGED <<build, lateVars, em100, sc, dcfg, fwv, sct, exit_requested, rx, traceVars, opVars>>

\* The Ctrl-C handler of main: exit_clone.store(true, Ordering::SeqCst), at any moment
CtrlC ==
    /\ ~exit_requested
    /\ exit_requested' = TRUE
    /\ UNCHANGED <<build, lateVars, wire, em100, sc, dcfg, fwv, sct, sd, dev, rx, traceVars, opVars>>

NextSdram == SdramCall \/ SdramHeader \/ SdramWriteChunk \/ SdramReadChunk \/ CtrlC

SpecSdram == InitSdram /\ [][NextSdram]_vars

\* The transfers of the SDRAM call in progress, the header command first
SdWire == SubSeq(wire, sd.base + 1, Len(wire))

\* x as a big-endian u32
BigEndian32(x) == [i \in 1..4 |-> (x \div 256 ^ (4 - i)) % 256]

SdHeader(opcode, address, length) ==
    <<opcode>> \o BigEndian32(address) \o BigEndian32(length) \o Zeros(7)

IsHeader(x) == x.ep = "out" /\ "data" \in DOMAIN x

IsChunk(x) == x.ep = "out" /\ "ext" \in DOMAIN x

\* C8: a successful SDRAM write of data (length len) at address a issues one
\* 16-byte header command [0x40, a big-endian, len big-endian, seven zeros]
\* before any data, then ceil(len / 0x200000) OUT transfers in order, each of
\* at most 0x200000 bytes and all but the last of exactly 0x200000 bytes,
\* whose concatenation is data; no header is sent between chunks (at any
\* moment of a write, everything after the header is a chunk).
C8_WriteHeaderThenChunks ==
    (sd.op = "write" /\ sd.pc \in {"loop", "done"}) =>
        LET w == SdWire
            n == Len(w) - 1
        IN  /\ IsHeader(w[1]) /\ w[1].data = SdHeader(64, sd.address, sd.length)
            /\ \A j \in 2..Len(w) : IsChunk(w[j])
            /\ (sd.pc = "done" /\ sd.res.status = "Ok") =>
                  /\ n = (sd.length + 2097151) \div 2097152
                  /\ \A j \in 1..n :
                        LET e == w[j + 1].ext
                        IN  /\ e.id = sd.id /\ e.off = (j - 1) * 2097152
                            /\ e.len <= 2097152
                            /\ j < n => e.len = 2097152
                            /\ j = n => e.off + e.len = sd.length

\* A write of 0x200001 bytes at 0x01020304 returned Ok after two chunks
C8_Witness ==
    /\ sd.op = "write" /\ sd.pc = "done" /\ sd.res.status = "Ok"
    /\ sd.length = 2097153 /\ sd.address = 16909060 /\ Len(SdWire) = 3

\* The bytes the host wanted from chunk number j of the call in progress
SdWanted(j) ==
    IF sd.length - (j - 1) * 2097152 < 2097152
    THEN sd.length - (j - 1) * 2097152 ELSE 2097152

\* The bytes the host took from chunk number j: none of a failed transfer,
\* and of an IN transfer no more than it wanted
SdTaken(j) ==
    LET x == SdWire[j + 1]
    IN  IF x.status # "ok" THEN 0
        ELSE IF x.actual_len < SdWanted(j) THEN x.actual_len ELSE SdWanted(j)

RECURSIVE SdTakenUpTo(_)
SdTakenUpTo(j) == IF j = 0 THEN 0 ELSE SdTakenUpTo(j - 1) + SdTaken(j)

SdTransferred == SdTakenUpTo(Len(SdWire) - 1)

\* A chunk that ends the transfer as the claim describes it: completed, with
\* fewer bytes than wanted; it is the last transfer, and the error reports
\* the totals
SdShortChunkEnds ==
    \A j \in 1..(Len(SdWire) - 1) :
        (SdWire[j + 1].status = "ok" /\ SdTaken(j) < SdWanted(j)) =>
            /\ j = Len(SdWire) - 1
            /\ sd.res = [status |-> "Communication", what |-> "sdram",
                         done |-> SdTransferred, total |-> sd.length]

\* C9 as stated: an SDRAM write or read returns Ok if and only if the byte
\* counts transferred sum to the requested length, and a chunk that moves
\* fewer bytes than requested is the last one and yields an error with the
\* transferred and expected totals.
C9_OkIffTotalsAgree ==
    sd.pc = "done" =>
        /\ sd.res.status = "Ok" <=> SdTransferred = sd.length
        /\ SdShortChunkEnds

\* C9, amended: an SDRAM write or read whose header command failed returns
\* that error and transfers nothing, whatever the length.  One whose header
\* command was sent returns Ok if and only if the byte counts taken from the
\* chunks sum to the requested length; a chunk that completes with fewer
\* bytes than wanted is the last one and yields the Communication error with
\* the transferred and expected totals; a chunk that fails with a transport
\* error is the last one too, and its error carries no totals.
C9_OkIffHeaderSentAndTotalsAgree ==
    sd.pc = "done" =>
        LET hdr == SdWire[1]
        IN  IF ~(hdr.status = "ok" /\ hdr.actual_len = 16)
            THEN /\ Len(SdWire) = 1
                 /\ sd.res.status \in {"UsbTransfer", "Communication"}
                 /\ sd.res.what = "send_cmd"
            ELSE /\ sd.res.status = "Ok" <=> SdTransferred = sd.length
                 /\ SdShortChunkEnds
                 /\ \A j \in 1..(Len(SdWire) - 1) :
                       SdWire[j + 1].status # "ok" =>
                           /\ j = Len(SdWire) - 1
                           /\ sd.res = [status |-> "UsbTransfer", what |-> "",
                                        done |-> 0, total |-> 0]

\* A read of 0x200001 bytes ended on a short second chunk, with the totals
C9_Witness ==
    /\ sd.pc = "done" /\ sd.op = "read" /\ sd.length = 2097153
    /\ sd.res.status = "Communication" /\ sd.res.what = "sdram"
    /\ sd.res.done = 2097152 /\ sd.res.total = 2097153 /\ Len(SdWire) = 3

\* A buffer with adjacent runs of the same data joined and empty runs dropped
RECURSIVE Canon(_)
Canon(ps) ==
    IF ps = <<>> THEN <<>>
    ELSE LET h == Head(ps)
             r == Canon(Tail(ps))
         IN  IF h.len = 0 THEN r
             ELSE IF r # <<>> /\ h.id # 0 /\ r[1].id = h.id /\ r[1].off = h.off + h.len
                  THEN <<[h EXCEPT !.len = h.len + r[1].len]>> \o Tail(r)
                  ELSE <<h>> \o r

\* The call before the one in progress was a write of the same length at the
\* same address (it returned Ok, or the call in progress had not been made)
SdAfterSameWrite ==
    /\ sd.base > 0
    /\ LET hs == { i \in 1..sd.base : IsHeader(wire[i]) }
           h == CHOOSE i \in hs : \A k \in hs : k <= i
       IN  wire[h].data = SdHeader(64, sd.address, sd.length)

\* The device answered the read in progress as a storing device does: the
\* header went through and every IN transfer brought the bytes wanted
SdDeviceAnswered ==
    /\ SdWire[1].status = "ok" /\ SdWire[1].actual_len = 16
    /\ \A j \in 1..(Len(SdWire) - 1) :
          SdWire[j + 1].status = "ok" /\ SdWire[j + 1].actual_len >= SdWanted(j)

\* C10: against a device that stores the bytes it receives, an SDRAM write of
\* N bytes at address a followed immediately by an SDRAM read of N bytes at a
\* returns Ok with exactly the bytes written, for N in {0, 1, 255, 256, 257,
\* 0x200000, 0x200001, 0x300000} and IN max-packet sizes 64 and 512.
C10_WriteThenReadRoundTrip ==
    (sd.op = "read" /\ sd.pc = "done" /\ SdAfterSameWrite /\ SdDeviceAnswered) =>
        /\ sd.res.status = "Ok"
        /\ Canon(sd.data) = IF sd.length = 0 THEN <<>>
                            ELSE <<[len |-> sd.length, id |-> sd.id - 1, off |-> 0]>>

\* 0x200001 bytes were written and read back in two chunks, the second IN
\* transfer bringing a full packet for the one byte wanted
C10_Witness ==
    /\ sd.op = "read" /\ sd.pc = "done" /\ SdAfterSameWrite /\ SdDeviceAnswered
    /\ sd.length = 2097153 /\ sd.res.status = "Ok" /\ Len(SdWire) = 3
    /\ SdWire[3].actual_len = em100.max_packet_size

\* C11: during an SDRAM write or read the progress sink is invoked once after
\* each completed chunk, and never otherwise; when the transfer of len bytes
\* succeeds that is ceil(len / 0x200000) invocations, each with total = len,
\* with done values that strictly increase and end at len (two invocations
\* for len = 0x300000, none for len = 0).
C11_ProgressOncePerChunk ==
    sd.pc \in {"loop", "done"} =>
        LET p == sd.progress
        IN  /\ Len(p) = Cardinality({ j \in 2..Len(SdWire) : SdWire[j].status = "ok" })
            /\ (sd.pc = "done" /\ sd.res.status = "Ok") =>
                  /\ Len(p) = (sd.length + 2097151) \div 2097152
                  /\ \A k \in 1..Len(p) : p[k][2] = sd.length
                  /\ \A k \in 1..(Len(p) - 1) : p[k][1] < p[k + 1][1]
                  /\ Len(p) > 0 => p[1][1] > 0 /\ p[Len(p)][1] = sd.length
                  /\ sd.length = 0 => p = <<>>

\* A transfer of 0x300000 bytes succeeded after two progress reports
C11_Witness ==
    /\ sd.pc = "done" /\ sd.res.status = "Ok" /\ sd.length = 3145728
    /\ sd.progress = << <<2097152, 3145728>>, <<3145728, 3145728>> >>

\* C13: an SDRAM read does not abort on its first transport error; when it
\* returns a transport error, 10 failed transfers have accumulated.
C13_ReadCollectsTenErrors ==
    (sd.op = "read" /\ sd.pc = "done" /\ sd.res.status = "UsbTransfer") =>
        Cardinality({ j \in 1..Len(SdWire) : SdWire[j].status # "ok" }) >= 10

\* C16: the cancellation flag is checked between SDRAM chunks; when it is set
\* and a chunk of the transfer in progress has completed, no further chunk
\* is transferred.
C16_NoChunkAfterCancel ==
    [][(exit_requested /\ sd.pc = "loop" /\ sd.bytes > 0) => Len(wire') = Len(wire)]_vars

---------------------------------------------------------------------------
(* The bulk IN requests: a session that makes one call of usb::get_response *)
(* or usb::bulk_read, or one SDRAM transfer.                               *)

MaxRxLength == 9

RxPacketSizes == {1, 3, 8, 64, 512}

\* usb::bulk_read on the completion: received bytes copied to the head of the buffer
bulk_read(buffer_len, r) ==
    IF r.status # "ok" THEN [status |-> "UsbTransfer", data |-> <<>>]
    ELSE LET received == Min(Len(r.data), buffer_len)
         IN  [status |-> "Ok", data |-> SubSeq(r.data, 1, received)]

\* What the IN endpoint may deliver into a buffer of requested_len bytes when
\* length bytes are wanted: nothing, one byte less or more than wanted, what is
\* wanted, a full buffer, or a failed transfer.  Byte number i carries i mod 256.
RxResponses(requested_len, length) ==
    { [status |-> "ok", data |-> [i \in 1..n |-> i % 256]] :
          n \in {0, length - 1, length, length + 1, requested_len} \cap 0..requested_len }
      \cup { [status |-> "err", data |-> <<>>] }

InitIn ==
    /\ build = buildIdle /\ wire = <<>> /\ LateIdle /\ sc = scIdle /\ dcfg = dcfgIdle
    /\ fwv = fwvIdle /\ sct = sctIdle /\ sd = sdIdle /\ dev = devIdle
    /\ exit_requested = FALSE /\ rx = rxIdle /\ TraceIdle /\ OpIdle
    /\ em100 \in [mcu : {0}, fpga : {0}, hw_version : {"Em100Pro"},
                  max_packet_size : RxPacketSizes]

\* A call of get_response(em100, length), or of bulk_read(em100, buffer) with
\* buffer.len() = length
RxCall ==
    /\ rx.pc = "idle" /\ sd = sdIdle
    /\ \E fn \in {"get_response", "bulk_read"}, length \in 0..MaxRxLength :
          rx' = [rxIdle EXCEPT !.pc = "transfer", !.fn = fn, !.length = length]
    /\ UNCHANGED <<build, lateVars, wire, em100, sc, dcfg, fwv, sct, sd, dev, exit_requested, traceVars, opVars>>

\* The IN transfer of the call and its return
RxTransfer ==
    /\ rx.pc = "transfer"
    /\ LET requested_len == round_up_to_max_packet(rx.length, em100.max_packet_size)
       IN  \E r \in RxResponses(requested_len, rx.length) :
              /\ wire' = Append(wire, InXfer(requested_len, r))
              /\ rx' = [rx EXCEPT !.pc = "done",
                                  !.res = IF rx.fn = "get_response"
                                          THEN get_response(rx.length, r)
                                          ELSE bulk_read(rx.length, r)]
    /\ UNCHANGED <<build, lateVars, em100, sc, dcfg, fwv, sct, sd, dev, exit_requested, traceVars, opVars>>

NextIn ==
    \/ RxCall
    \/ RxTransfer
    \/ (rx = rxIdle /\ sd.pc # "done" /\ NextSdram)

SpecIn == InitIn /\ [][NextIn]_vars

\* req is ceil(w / m) * m: the one multiple of m in w .. w + m - 1
RoundedUp(w, m, req) == req % m = 0 /\ req >= w /\ req - w < m

\* What the SDRAM read in progress kept of its first j chunks
RECURSIVE SdKept(_)
SdKept(j) ==
    IF j = 0 THEN <<>>
    ELSE SdKept(j - 1) \o
         (IF SdWire[j + 1].status # "ok" THEN <<>>
          ELSE Take(SdWire[j + 1].pieces, SdTaken(j)))

\* C12: for every wanted length w and IN max-packet size m > 0, the bulk IN
\* request of get_response, of bulk_read and of each turn of the SDRAM read
\* loop asks for ceil(w / m) * m bytes, a multiple of m that is at least w,
\* and the caller gets the first min(actual, w) bytes of the completed
\* transfer and nothing of the tail above w.
C12_InRequestRoundedUp ==
    LET m == em100.max_packet_size
    IN  /\ rx.pc = "done" =>
              LET x == wire[Len(wire)]
                  n == IF x.actual_len < rx.length THEN x.actual_len ELSE rx.length
              IN  /\ x.ep = "in" /\ RoundedUp(rx.length, m, x.requested_len)
                  /\ x.requested_len = ((rx.length + m - 1) \div m) * m
                  /\ x.status = "ok" =>
                        rx.res = [status |-> "Ok", data |-> [i \in 1..n |-> x.data[i]]]
        /\ (sd.op = "read" /\ sd.pc \in {"loop", "done"}) =>
              /\ \A j \in 1..(Len(SdWire) - 1) :
                    /\ SdWire[j + 1].ep = "in"
                    /\ RoundedUp(SdWanted(j), m, SdWire[j + 1].requested_len)
              /\ sd.data = SdKept(Len(SdWire) - 1)
              /\ sd.bytes = SdTransferred

\* bulk_read into a 5-byte buffer with 8-byte packets: 8 bytes were asked for
\* and came, 5 were kept
C12_Witness ==
    /\ rx.pc = "done" /\ rx.fn = "bulk_read" /\ rx.length = 5
    /\ em100.max_packet_size = 8 /\ wire[1].requested_len = 8 /\ wire[1].actual_len = 8
    /\ rx.res.data = <<1, 2, 3, 4, 5>>

---------------------------------------------------------------------------
(* trace::read_spi_trace: the decoder of the SPI trace reports              *)
(*                                                                         *)
(* A report buffer is 8192 bytes: a big-endian record count and records of *)
(* 8 bytes.  It is held as its count and the records that are not all zero *)
(* (recs, from record number to 8 bytes); every other byte of it is 0.     *)

REPORT_BUFFER_LENGTH == 8192
REPORT_BUFFER_COUNT == 8
MAX_TRACE_BLOCKLENGTH == 6

SPI_COMMAND_LIST ==
    << [name |-> "read SFDP", cmd |-> 90, address_type |-> "NoOff3B", pad_bytes |-> 0],
       [name |-> "write status register", cmd |-> 1, address_type |-> "None", pad_bytes |-> 0],
       [name |-> "page program", cmd |-> 2, address_type |-> "Dynamic", pad_bytes |-> 0],
       [name |-> "read", cmd |-> 3, address_type |-> "Dynamic", pad_bytes |-> 0],
       [name |-> "write disable", cmd |-> 4, address_type |-> "None", pad_bytes |-> 0],
       [name |-> "read status register", cmd |-> 5, address_type |-> "None", pad_bytes |-> 0],
       [name |-> "write enable", cmd |-> 6, address_type |-> "None", pad_bytes |-> 0],
       [name |-> "fast read", cmd |-> 11, address_type |-> "Dynamic", pad_bytes |-> 1],
       [name |-> "EM100 specific", cmd |-> 17, address_type |-> "None", pad_bytes |-> 0],
       [name |-> "fast dual read", cmd |-> 59, address_type |-> "Dynamic", pad_bytes |-> 2],
       [name |-> "chip erase", cmd |-> 96, address_type |-> "None", pad_bytes |-> 0],
       [name |-> "read JEDEC ID", cmd |-> 159, address_type |-> "None", pad_bytes |-> 0],
       [name |-> "chip erase c7h", cmd |-> 199, address_type |-> "None", pad_bytes |-> 0],
       [name |-> "sector erase d8h", cmd |-> 216, address_type |-> "Dynamic", pad_bytes |-> 0],
       [name |-> "dual I/O read", cmd |-> 187, address_type |-> "Dynamic", pad_bytes |-> 2],
       [name |-> "quad I/O read", cmd |-> 235, address_type |-> "Dynamic", pad_bytes |-> 0],
       [name |-> "quad read", cmd |-> 107, address_type |-> "Dynamic", pad_bytes |-> 0],
       [name |-> "quad I/O dt read", cmd |-> 237, address_type |-> "Dynamic", pad_bytes |-> 0],
       [name |-> "quad page program", cmd |-> 56, address_type |-> "Dynamic", pad_bytes |-> 0],
       [name |-> "sector erase 20h", cmd |-> 32, address_type |-> "Dynamic", pad_bytes |-> 0],
       [name |-> "block erase 32KB", cmd |-> 82, address_type |-> "Dynamic", pad_bytes |-> 0],
       [name |-> "enter 4b mode", cmd |-> 183, address_type |-> "None", pad_bytes |-> 0],
       [name |-> "exit 4b mode", cmd |-> 233, address_type |-> "None", pad_bytes |-> 0],
       [name |-> "read 4b", cmd |-> 19, address_type |-> "Addr4B", pad_bytes |-> 0],
       [name |-> "fast read 4b", cmd |-> 12, address_type |-> "Addr4B", pad_bytes |-> 0],
       [name |-> "dual I/O read 4b", cmd |-> 188, address_type |-> "Addr4B", pad_bytes |-> 0],
       [name |-> "dual out read 4b", cmd |-> 60, address_type |-> "Addr4B", pad_bytes |-> 0],
       [name |-> "quad I/O read 4b", cmd |-> 236, address_type |-> "Addr4B", pad_bytes |-> 0],
       [name |-> "quad out read 4b", cmd |-> 108, address_type |-> "Addr4B", pad_bytes |-> 0],
       [name |-> "quad I/O dt read 4b", cmd |-> 238, address_type |-> "Addr4B", pad_bytes |-> 0],
       [name |-> "page program 4b", cmd |-> 18, address_type |-> "Addr4B", pad_bytes |-> 0],
       [name |-> "quad page program 4b", cmd |-> 62, address_type |-> "Addr4B", pad_bytes |-> 0],
       [name |-> "block erase 64KB 4b", cmd |-> 220, address_type |-> "Addr4B", pad_bytes |-> 0],
       [name |-> "block erase 32KB 4b", cmd |-> 92, address_type |-> "Addr4B", pad_bytes |-> 0],
       [name |-> "sector erase 4b", cmd |-> 33, address_type |-> "Addr4B", pad_bytes |-> 0],
       [name |-> "enter quad I/O mode", cmd |-> 53, address_type |-> "None", pad_bytes |-> 0],
       [name |-> "exit quad I/O mode", cmd |-> 245, address_type |-> "None", pad_bytes |-> 0],
       [name |-> "unknown command", cmd |-> 255, address_type |-> "None", pad_bytes |-> 0] >>

\* SPI_COMMAND_LIST.iter().find(|c| c.cmd == command).unwrap_or(&last)
get_command_vals(command) ==
    LET hits == { k \in 1..Len(SPI_COMMAND_LIST) : SPI_COMMAND_LIST[k].cmd = command }
    IN  IF hits = {} THEN SPI_COMMAND_LIST[Len(SPI_COMMAND_LIST)]
        ELSE SPI_COMMAND_LIST[CHOOSE k \in hits : \A l \in hits : k <= l]

\* TraceState::new(brief, address_mode)
TraceState_new(brief, address_mode) ==
    [trace_stateIdle EXCEPT !.brief = brief, !.address_mode = address_mode]

\* data[k], for k < REPORT_BUFFER_LENGTH
ReportByte(data, k) ==
    IF k = 0 THEN data.count \div 256
    ELSE IF k = 1 THEN data.count % 256
    ELSE LET q == (k - 2) \div 8
         IN  IF q \in DOMAIN data.recs THEN data.recs[q][((k - 2) % 8) + 1] ELSE 0

\* let count = ((data[0] as usize) << 8) | (data[1] as usize); count.min(1023)
report_count(data) == Min(ReportByte(data, 0) * 256 + ReportByte(data, 1), 1023)

\* a < b for two timestamps
ts_less(a, b) == a.hi < b.hi \/ (a.hi = b.hi /\ a.lo < b.lo)

\* The six timestamp bytes of record i, (data[2 + i * 8 + 2] as u64) << 40 | ...
record_timestamp(data, i) ==
    [hi |-> (ReportByte(data, i * 8 + 4) * 256 + ReportByte(data, i * 8 + 5)) * 256
                + ReportByte(data, i * 8 + 6),
     lo |-> (ReportByte(data, i * 8 + 7) * 256 + ReportByte(data, i * 8 + 8)) * 256
                + ReportByte(data, i * 8 + 9)]

\* A mutation of address_bytes_of: the session mode is ignored
address_bytes_fixed3(address_type, address_mode) ==
    CASE address_type = "Dynamic" -> 3
      [] address_type \in {"NoOff3B", "Addr3B"} -> 3
      [] address_type = "Addr4B" -> 4
      [] OTHER -> 0

\* let address_bytes = match spi_cmd_vals.address_type { .. }
address_bytes_of(address_type, address_mode) ==
    CASE address_type = "Dynamic" -> address_mode
      [] address_type \in {"NoOff3B", "Addr3B"} -> 3
      [] address_type = "Addr4B" -> 4
      [] OTHER -> 0

\* match spi_command { 0xb7 => address_mode = 4, 0xe9 => address_mode = 3, _ => {} }
header_address_mode(address_mode, spi_command) ==
    CASE spi_command = 183 -> 4
      [] spi_command = 233 -> 3
      [] OTHER -> address_mode

\* The address of a header record: three or four bytes after the opcode, or
\* the address of the state when the command has none
header_address(address, data, i, address_bytes) ==
    IF address_bytes = 3
    THEN (ReportByte(data, i * 8 + 5) * 256 + ReportByte(data, i * 8 + 6)) * 256
            + ReportByte(data, i * 8 + 7)
    ELSE IF address_bytes = 4
    THEN ((ReportByte(data, i * 8 + 5) * 256 + ReportByte(data, i * 8 + 6)) * 256
            + ReportByte(data, i * 8 + 7)) * 256 + ReportByte(data, i * 8 + 8)
    ELSE address

\* j += address_bytes + pad_bytes; if j > MAX_TRACE_BLOCKLENGTH { .. }: the
\* state after the header with skip = 1 + address_bytes + pad_bytes
header_state(st, cmd, mode, address, skip) ==
    [st EXCEPT !.cmdid = cmd, !.address_mode = mode, !.address = address,
               !.additional_pad_bytes =
                   IF skip > MAX_TRACE_BLOCKLENGTH THEN skip - MAX_TRACE_BLOCKLENGTH ELSE 0,
               !.curpos = 0, !.outbytes = 0]

\* What the header prints and leaves, the brief mode or the full one; start is
\* the start_timestamp after `if state.counter == 0 { .. }`
header_print(st, s1, j, spi_command, spi_cmd_vals, start, overflow_checks) ==
    IF st.brief
    THEN [state |-> [s1 EXCEPT !.start_timestamp = [hi |-> 0, lo |-> 0]], j |-> j,
          out |-> <<[line |-> "brief", spi_command |-> spi_command,
                     address |-> IF spi_cmd_vals.address_type # "None"
                                 THEN s1.address ELSE -1,
                     name |-> spi_cmd_vals.name]>>,
          status |-> "ok"]
    ELSE [state |-> [s1 EXCEPT !.start_timestamp = start, !.counter = st.counter + 1],
          j |-> j,
          out |-> <<[line |-> "command", counter |-> st.counter + 1,
                     spi_command |-> spi_command, name |-> spi_cmd_vals.name]>>,
          status |-> IF ts_less(st.timestamp, start) /\ overflow_checks
                     THEN "overflow" ELSE "ok"]

\* The header with the table entry of its opcode, its mode and address bytes
header_decode(st, data, i, cmd, overflow_checks, spi_command, spi_cmd_vals, mode, address_bytes) ==
    header_print(st,
                 header_state(st, cmd, mode,
                              header_address(st.address, data, i, address_bytes),
                              1 + address_bytes + spi_cmd_vals.pad_bytes),
                 Min(1 + address_bytes + spi_cmd_vals.pad_bytes, MAX_TRACE_BLOCKLENGTH),
                 spi_command, spi_cmd_vals,
                 IF st.counter = 0 THEN st.timestamp ELSE st.start_timestamp,
                 overflow_checks)

\* The first record of a transaction (cmd != state.cmdid): the new state, the
\* bytes to skip, what is printed, and "overflow" when the relative time
\* underflows in a build with overflow checks
trace_header(st, data, i, cmd, overflow_checks) ==
    header_decode(st, data, i, cmd, overflow_checks,
                  ReportByte(data, i * 8 + 4),
                  get_command_vals(ReportByte(data, i * 8 + 4)),
                  header_address_mode(st.address_mode, ReportByte(data, i * 8 + 4)),
                  address_bytes_of(get_command_vals(ReportByte(data, i * 8 + 4)).address_type,
                                   header_address_mode(st.address_mode,
                                                       ReportByte(data, i * 8 + 4))))

\* if state.outbytes == 16 { state.outbytes = 0; state.address += 16; }
line_full(outbytes) == outbytes = 16

\* while j < blocklen { .. print!("{:02x} ", data[i * 8 + 4 + j]); .. j += 1 }
RECURSIVE trace_payload(_, _, _, _, _, _, _)
trace_payload(st, data, i, j, blocklen, addr_offset, out) ==
    IF ~(j < blocklen) THEN [state |-> st, out |-> out, status |-> "ok"]
    ELSE IF i * 8 + 4 + j >= REPORT_BUFFER_LENGTH
    THEN [state |-> st, out |-> out, status |-> "index out of bounds"]
    ELSE LET address_type == get_command_vals(ReportByte(data, i * 8 + 4)).address_type
             prefix == IF st.outbytes # 0 THEN <<>>
                       ELSE IF address_type \in {"Dynamic", "Addr3B", "Addr4B"}
                       THEN <<[line |-> "address", address |-> addr_offset + st.address]>>
                       ELSE IF address_type = "NoOff3B"
                       THEN <<[line |-> "address", address |-> st.address]>>
                       ELSE <<[line |-> "noaddress"]>>
             byte == [line |-> "byte", value |-> ReportByte(data, i * 8 + 4 + j)]
             wrapped == line_full(st.outbytes + 1)
             s1 == [st EXCEPT !.outbytes = IF wrapped THEN 0 ELSE @ + 1,
                              !.address = IF wrapped THEN @ + 16 ELSE @]
         IN  trace_payload(s1, data, i, j + 1, blocklen, addr_offset,
                           out \o prefix \o <<byte>>)

\* A mutation of curpos_after: the sum is not reduced to a u8
curpos_after_wide(slot) == slot + 16

\* data[2 + i * 8 + 1].wrapping_add(0x10)
curpos_after(slot) == (slot + 16) % 256

\* A mutation of starts_transaction: every data record is taken for a header
starts_transaction_always(cmd, cmdid) == TRUE

\* if cmd != state.cmdid: the data record is the first of a transaction
starts_transaction(cmd, cmdid) == cmd # cmdid

\* One turn of `for i in 0..count`: record i of a report buffer
trace_record(st, data, i, addr_offset, overflow_checks) ==
    LET j0 == st.additional_pad_bytes
        s0 == [st EXCEPT !.additional_pad_bytes = 0]
        cmd == ReportByte(data, 2 + i * 8)
        slot == ReportByte(data, 2 + i * 8 + 1)
    IN  IF cmd = 0 THEN [state |-> s0, out |-> <<>>, status |-> "ok"]
        ELSE IF cmd = 255
        THEN [state |-> [s0 EXCEPT !.timestamp = record_timestamp(data, i)],
              out |-> <<>>, status |-> "ok"]
        ELSE LET h == IF starts_transaction(cmd, st.cmdid)
                      THEN trace_header(s0, data, i, cmd, overflow_checks)
                      ELSE [state |-> s0, j |-> j0, out |-> <<>>, status |-> "ok"]
                 blocklen == ((slot - h.state.curpos) % 256) \div 8
                 p == IF h.state.brief
                      THEN [state |-> [h.state EXCEPT !.outbytes =
                                           IF @ > 0 THEN @ + 1 ELSE @],
                            out |-> h.out, status |-> "ok"]
                      ELSE trace_payload(h.state, data, i, h.j, blocklen, addr_offset,
                                         h.out)
             IN  IF h.status # "ok" THEN [state |-> h.state, out |-> h.out, status |-> h.status]
                 ELSE IF p.status # "ok" THEN p
                 ELSE [state |-> [p.state EXCEPT !.curpos = curpos_after(slot)],
                       out |-> p.out, status |-> "ok"]

---------------------------------------------------------------------------
(* The trace mode of main (--trace), with read_spi_trace and                *)
(* read_report_buffer.  The Em100 calls of main around the loop are logged *)
(* in tloop.calls as calls, without their transfers.                       *)

MAX_USB_ERRORS == 10

MaxTraceReads == 2

EmptyReport == [count |-> 0, recs |-> <<>>]

\* The log entry of the IN transfer of one report: what was asked for, and the
\* report of which the first actual_len bytes came
InReport(requested_len, r) ==
    [ep |-> "in", requested_len |-> requested_len, status |-> r.status,
     actual_len |-> r.actual_len, report |-> r.report]

\* What the IN endpoint may deliver for a report: all of it, all but its last
\* byte, or a failed transfer
ReportOutcomes(report) ==
    { [status |-> "ok", actual_len |-> n, report |-> report] :
          n \in {REPORT_BUFFER_LENGTH, REPORT_BUFFER_LENGTH - 1} }
      \cup { [status |-> "err", actual_len |-> 0, report |-> EmptyReport] }

\* cmd[0] = 0xbc; cmd[4] = REPORT_BUFFER_COUNT as u8; cmd[9] = 0x15
cmd_read_report_buffer ==
    <<188, 0, 0, 0, REPORT_BUFFER_COUNT, 0, 0, 0, 0, 21, 0, 0, 0, 0, 0, 0>>

\* The position of the decoder after record i of report number report: the next
\* record of the report, or record 0 of the next report with a count that is
\* not 0; report = REPORT_BUFFER_COUNT when there is none
RECURSIVE next_record(_, _, _)
next_record(reportdata, report, i) ==
    IF report >= REPORT_BUFFER_COUNT THEN [report |-> REPORT_BUFFER_COUNT, i |-> 0]
    ELSE IF i < report_count(reportdata[report + 1]) THEN [report |-> report, i |-> i]
    ELSE next_record(reportdata, report + 1, 0)

\* read_spi_trace from the position pos on: Ok(true) when no record is left
trace_at(f, pos) ==
    IF pos.report >= REPORT_BUFFER_COUNT
    THEN [f EXCEPT !.pc = "ret", !.res = "Ok(true)", !.report = pos.report, !.i = 0]
    ELSE [f EXCEPT !.pc = "decode", !.report = pos.report, !.i = pos.i]

\* The log entry of a call main makes on the Em100; seen_err is the error main
\* looks at (none for a call whose result is dropped with .ok())
Call(fn, arg, seen_err) == [fn |-> fn, arg |-> arg, seen_err |-> seen_err]

\* A mutation of implicit_emulation: --stop is not looked at
implicit_emulation_unless_start(args) == ~args.start

\* if !args.start && !args.stop: the session starts and stops emulation itself
implicit_emulation(args) == ~args.start /\ ~args.stop

\* main enters the trace mode: set_hold_pin_state(Input) unless --holdpin was given
HoldPinInput ==
    /\ tloop.pc = "idle"
    /\ IF tloop.args.holdpin
       THEN tloop' = [tloop EXCEPT !.pc = "setup"]
       ELSE \E err \in BOOLEAN :
               tloop' = [tloop EXCEPT
                   !.calls = Append(@, Call("set_hold_pin_state", "Input", err)),
                   !.pc = IF err THEN "exit" ELSE "setup",
                   !.stderr = IF err THEN Append(@, "Error: Failed to set EM100 to input")
                              ELSE @,
                   !.exit = IF err THEN 1 ELSE @]
    /\ UNCHANGED <<build, lateVars, wire, em100, sc, dcfg, fwv, sct, sd, dev, exit_requested, rx,
                   trace_state, rspt, tdev, opVars>>

\* set_state(true).ok() if neither --start nor --stop, reset_spi_trace(..).ok(),
\* TraceState::new(args.brief, args.address_mode.unwrap_or(3))
TraceSetup ==
    /\ tloop.pc = "setup"
    /\ tloop' = [tloop EXCEPT
           !.pc = "test",
           !.calls = @ \o (IF implicit_emulation(tloop.args)
                           THEN <<Call("set_state", "true", FALSE)>> ELSE <<>>)
                      \o <<Call("reset_spi_trace", "", FALSE)>>]
    /\ trace_state' = TraceState_new(tloop.args.brief, tloop.args.address_mode)
    /\ UNCHANGED <<build, lateVars, wire, em100, sc, dcfg, fwv, sct, sd, dev, exit_requested, rx,
                   rspt, tdev, opVars>>

\* while !exit_requested.load(..) && usb_errors < MAX_USB_ERRORS: the test, and
\* the call of read_spi_trace when it holds (up to MaxTraceReads calls)
TraceLoopTest ==
    /\ tloop.pc = "test"
    /\ IF ~exit_requested /\ tloop.usb_errors < MAX_USB_ERRORS
       THEN /\ tloop.reads < MaxTraceReads
            /\ tloop' = [tloop EXCEPT !.pc = "read", !.reads = @ + 1]
            /\ rspt' = [rsptIdle EXCEPT !.pc = "cmd", !.out = rspt.out]
       ELSE /\ tloop' = [tloop EXCEPT !.pc = "after",
                                      !.left_by = IF exit_requested THEN "cancel" ELSE "errors"]
            /\ rspt' = rspt
    /\ UNCHANGED <<build, lateVars, wire, em100, sc, dcfg, fwv, sct, sd, dev, exit_requested, rx,
                   trace_state, tdev, opVars>>

\* read_report_buffer: usb::send_cmd(&cmd)?
TraceReadCmd ==
    /\ rspt.pc = "cmd"
    /\ \E o \in OutOutcomes(CMD_LEN) :
          LET r == send_cmd_result(o)
          IN  /\ wire' = Append(wire, OutXfer(send_cmd_buf(cmd_read_report_buffer), o))
              /\ rspt' = IF r = "Ok" THEN [rspt EXCEPT !.pc = "resp"]
                         ELSE [rspt EXCEPT !.pc = "ret", !.res = r]
    /\ UNCHANGED <<build, lateVars, em100, sc, dcfg, fwv, sct, sd, dev, exit_requested, rx,
                   trace_state, tloop, tdev, opVars>>

\* read_report_buffer: one turn of `for report in 0..REPORT_BUFFER_COUNT`, with
\* `let data = usb::get_response(.., REPORT_BUFFER_LENGTH)?` and the length test;
\* after the last report, the decoder is at its first record
TraceReadReport ==
    /\ rspt.pc = "resp"
    /\ LET requested_len == round_up_to_max_packet(REPORT_BUFFER_LENGTH, em100.max_packet_size)
           next == IF tdev = <<>> THEN EmptyReport ELSE Head(tdev)
       IN  \E r \in ReportOutcomes(next) :
              /\ wire' = Append(wire, InReport(requested_len, r))
              /\ tdev' = IF tdev = <<>> \/ r.status # "ok" THEN tdev ELSE Tail(tdev)
              /\ rspt' =
                   IF r.status # "ok" THEN [rspt EXCEPT !.pc = "ret", !.res = "UsbTransfer"]
                   ELSE IF Min(r.actual_len, REPORT_BUFFER_LENGTH) # REPORT_BUFFER_LENGTH
                   THEN [rspt EXCEPT !.pc = "ret", !.res = "Communication"]
                   ELSE LET got == Append(rspt.reportdata, r.report)
                        IN  IF Len(got) < REPORT_BUFFER_COUNT
                            THEN [rspt EXCEPT !.reportdata = got]
                            ELSE trace_at([rspt EXCEPT !.reportdata = got],
                                          next_record(got, 0, 0))
    /\ UNCHANGED <<build, lateVars, em100, sc, dcfg, fwv, sct, sd, dev, exit_requested, rx,
                   trace_state, tloop, opVars>>

\* read_spi_trace: one turn of `for i in 0..count`; a panic ends the process
TraceRecord ==
    /\ rspt.pc = "decode"
    /\ LET t == trace_record(trace_state, rspt.reportdata[rspt.report + 1], rspt.i,
                             tloop.args.address_offset, build.overflow_checks)
           f == [rspt EXCEPT !.out = @ \o t.out]
       IN  /\ trace_state' = t.state
           /\ IF t.status # "ok"
              THEN /\ rspt' = [f EXCEPT !.pc = "panic", !.res = t.status]
                   /\ tloop' = [tloop EXCEPT !.pc = "exit", !.exit = 101,
                                             !.left_by = "panic"]
              ELSE /\ rspt' = trace_at(f, next_record(rspt.reportdata, rspt.report, rspt.i + 1))
                   /\ tloop' = tloop
    /\ UNCHANGED <<build, lateVars, wire, em100, sc, dcfg, fwv, sct, sd, dev, exit_requested, rx, tdev, opVars>>

\* match ret { Ok(false) => usb_errors += 1, Err(_) => break, _ => {} }
TraceReadReturn ==
    /\ tloop.pc = "read" /\ rspt.pc = "ret"
    /\ rspt' = [rspt EXCEPT !.pc = "idle"]
    /\ tloop' = [tloop EXCEPT
           !.calls = Append(@, Call("read_spi_trace", "", rspt.res # "Ok(true)")),
           !.pc = IF rspt.res = "Ok(true)" THEN "test" ELSE "after",
           !.left_by = IF rspt.res = "Ok(true)" THEN @ ELSE "break"]
    /\ UNCHANGED <<build, lateVars, wire, em100, sc, dcfg, fwv, sct, sd, dev, exit_requested, rx,
                   trace_state, tdev, opVars>>

\* After the loop: the message for too many errors, set_state(false).ok() if
\* neither --start nor --stop, reset_spi_trace(..).ok(), and
\* set_hold_pin_state(Float) unless --holdpin was given; main returns
TraceCleanup ==
    /\ tloop.pc = "after"
    /\ \E err \in IF tloop.args.holdpin THEN {FALSE} ELSE BOOLEAN :
          tloop' = [tloop EXCEPT
              !.pc = "exit", !.exit = 0,
              !.calls = @ \o (IF implicit_emulation(tloop.args)
                              THEN <<Call("set_state", "false", FALSE)>> ELSE <<>>)
                         \o <<Call("reset_spi_trace", "", FALSE)>>
                         \o (IF tloop.args.holdpin THEN <<>>
                             ELSE <<Call("set_hold_pin_state", "Float", err)>>),
              !.stderr = @ \o (IF tloop.usb_errors >= MAX_USB_ERRORS
                               THEN <<"Error: Bailed out with too many USB errors.">>
                               ELSE <<>>)
                          \o (IF err THEN <<"Error: Failed to set EM100 to float">> ELSE <<>>)]
    /\ UNCHANGED <<build, lateVars, wire, em100, sc, dcfg, fwv, sct, sd, dev, exit_requested, rx,
                   trace_state, rspt, tdev, opVars>>

\* Record number i of a report as its 8 bytes; the report with these records
Report(count, recs) == [count |-> count, recs |-> recs]

Records(seq) == [q \in 0..(Len(seq) - 1) |-> seq[q + 1]]

\* enter 4-byte mode, then a read (Dynamic) with four address bytes and one of data
ReportEnter4b ==
    Report(2, Records(<< <<1, 8, 183, 0, 0, 0, 0, 0>>, <<2, 48, 3, 1, 2, 3, 4, 165>> >>))

\* a read (Dynamic)
ReportRead == Report(1, Records(<< <<3, 48, 3, 17, 34, 51, 68, 85>> >>))

\* exit 4-byte mode, then a page program (Dynamic)
ReportExit4b ==
    Report(2, Records(<< <<4, 8, 233, 0, 0, 0, 0, 0>>, <<5, 48, 2, 5, 6, 7, 8, 9>> >>))

\* read 4b (Addr4B), then read SFDP (NoOff3B) in a record with slot byte 0xf8
ReportFixed ==
    Report(2, Records(<< <<6, 48, 19, 1, 2, 3, 4, 9>>, <<7, 248, 90, 1, 2, 3, 0, 0>> >>))

\* a pad record and a timestamp record with slot bytes of their own, then a
\* transaction with an opcode that is not in the table
ReportPadTimestamp ==
    Report(3, Records(<< <<0, 85, 0, 0, 0, 0, 0, 0>>, <<255, 102, 0, 0, 0, 0, 0, 7>>,
                         <<8, 48, 170, 1, 2, 3, 4, 5>> >>))

\* a read (Dynamic) of 20 bytes in four records: the opcode, three address
\* bytes and two bytes of data, then six bytes of data in each of three records
ReportLong ==
    Report(4, Records(<< <<12, 48, 3, 0, 16, 0, 160, 161>>,
                         <<12, 112, 162, 163, 164, 165, 166, 167>>,
                         <<12, 176, 168, 169, 170, 171, 172, 173>>,
                         <<12, 240, 174, 175, 176, 177, 178, 179>> >>))

\* a timestamp, a transaction, an earlier timestamp, another transaction
ReportTimeBack ==
    Report(4, Records(<< <<255, 0, 0, 0, 0, 0, 0, 5>>, <<9, 8, 6, 0, 0, 0, 0, 0>>,
                         <<255, 0, 0, 0, 0, 0, 0, 3>>, <<10, 8, 4, 0, 0, 0, 0, 0>> >>))

\* 1023 records, the last one claiming a block of 31 bytes
ReportFull == Report(1023, [q \in {1022} |-> <<11, 248, 159, 1, 2, 3, 4, 5>>])

TraceReports ==
    {EmptyReport, ReportEnter4b, ReportRead, ReportExit4b, ReportFixed,
     ReportPadTimestamp, ReportTimeBack, ReportLong}

\* The reports of a session: a the first and b the last of the first read,
\* c (a read or the exit from 4-byte mode) the first of the second read, all
\* others empty
Tape(a, b, c) ==
    <<a, EmptyReport, EmptyReport, EmptyReport, EmptyReport, EmptyReport, EmptyReport, b, c>>

TraceTapes ==
    { Tape(a, b, c) : a \in TraceReports, b \in TraceReports,
                      c \in {ReportRead, ReportExit4b} }
        \cup { <<ReportFull>> }

TraceArgs ==
    [start : BOOLEAN, stop : BOOLEAN, holdpin : BOOLEAN, brief : BOOLEAN,
     address_mode : {3, 4}, address_offset : {0, 4096}]

\* Every option with a short session, or the options of a plain --trace run
\* (brief or not, 3- or 4-byte mode) with every tape
InitTrace ==
    /\ wire = <<>> /\ LateIdle /\ sc = scIdle /\ dcfg = dcfgIdle /\ fwv = fwvIdle
    /\ sct = sctIdle /\ sd = sdIdle /\ dev = devIdle
    /\ exit_requested = FALSE /\ rx = rxIdle /\ OpIdle
    /\ em100 = [em100Idle EXCEPT !.hw_version = "Em100Pro"]
    /\ build \in [overflow_checks : BOOLEAN]
    /\ trace_state = trace_stateIdle /\ rspt = rsptIdle
    /\ \E a \in TraceArgs :
          /\ tloop = [tloopIdle EXCEPT !.args = a]
          /\ \/ tdev \in {<<>>, <<ReportRead>>}
             \/ /\ ~a.start /\ ~a.stop /\ ~a.holdpin /\ a.address_offset = 0
                /\ tdev \in TraceTapes

NextTrace ==
    \/ HoldPinInput \/ TraceSetup \/ TraceLoopTest \/ TraceReadCmd \/ TraceReadReport
    \/ TraceRecord \/ TraceReadReturn \/ TraceCleanup \/ CtrlC

SpecTrace == InitTrace /\ [][NextTrace]_vars

---------------------------------------------------------------------------
(* Claims about the trace mode                                             *)

\* C14: the trace loop is left only when the cancellation flag is set or when
\* the error count has reached 10: a failed read with fewer than 10 errors
\* counted and no cancellation does not end the loop
C14_LoopLeftOnlyOnCancelOrTenErrors ==
    [][(tloop.pc \in {"test", "read"} /\ tloop'.pc = "after")
          => (exit_requested \/ tloop.usb_errors >= MAX_USB_ERRORS)]_vars

\* C17: a run ended by a failed trace read differs from a run ended by the
\* cancellation in what it reports: a message on stderr or the exit status
C17_FailedRunDiffersFromCancelled ==
    (tloop.pc = "exit" /\ tloop.left_by = "break")
        => (tloop.stderr # <<>> \/ tloop.exit # 0)

\* main has made the call fn(arg) on the Em100
TraceCalled(fn, arg) ==
    \E k \in 1..Len(tloop.calls) : tloop.calls[k].fn = fn /\ tloop.calls[k].arg = arg

\* C15: once the cancellation flag is set no further trace read is started, and
\* on every exit of the trace loop (by its test, on cancellation or on the
\* error count, or by the break on a failed read) emulation is stopped if and
\* only if neither start nor stop was requested, and the hold pin is set back
\* to Float if and only if no hold-pin option was given
C15_NoReadAfterCancelAndCleanupOnEveryExit ==
    /\ [][(exit_requested /\ rspt.pc = "idle") => rspt'.pc = "idle"]_vars
    /\ []((tloop.pc = "exit" /\ tloop.left_by \in {"cancel", "errors", "break"})
            => /\ TraceCalled("set_state", "false")
                    <=> (~tloop.args.start /\ ~tloop.args.stop)
               /\ TraceCalled("set_hold_pin_state", "Float")
                    <=> ~tloop.args.holdpin)

\* Ctrl-C came after the first read had begun: that read went to its end, the
\* loop was left by its test, emulation was stopped and the hold pin set to Float
C15_Witness ==
    /\ exit_requested /\ tloop.pc = "exit" /\ tloop.left_by = "cancel"
    /\ tloop.reads = 1 /\ Len(wire) = 1 + REPORT_BUFFER_COUNT
    /\ ~tloop.args.start /\ ~tloop.args.stop /\ ~tloop.args.holdpin
    /\ TraceCalled("set_state", "false")
    /\ TraceCalled("set_hold_pin_state", "Float")

\* Every opcode that is not in the table gets the last entry of the table
UnknownOpcodesResolve ==
    \A op \in 0..255 :
        (\A k \in 1..Len(SPI_COMMAND_LIST) : SPI_COMMAND_LIST[k].cmd # op)
            => /\ get_command_vals(op).name = "unknown command"
               /\ get_command_vals(op).address_type = "None"

\* C18: the decoding of read_spi_trace never indexes a report buffer out of
\* range and never overflows, and every opcode that is not in the command
\* table resolves to the "unknown command" entry with address type None
C18_DecoderTotal == rspt.pc # "panic" /\ UnknownOpcodesResolve

\* The step of the decoder over one record: the record it was at, cmd and slot
TraceRecordStep == rspt.pc = "decode" /\ rspt' # rspt /\ rspt'.pc # "panic"

RecordAt(k) == ReportByte(rspt.reportdata[rspt.report + 1], 2 + rspt.i * 8 + k)

\* C19 as stated: after any record, pad and timestamp records included, curpos
\* is (slot + 0x10) mod 256 for the slot byte of that record
C19_CurposAfterAnyRecord ==
    [][TraceRecordStep => trace_state'.curpos = (RecordAt(1) + 16) % 256]_vars

\* C19: after a data record curpos is (slot + 0x10) mod 256 for the slot byte
\* of that record; a pad record (0x00) and a timestamp record (0xff) leave
\* curpos as it was
C19_CurposAfterDataRecord ==
    [][TraceRecordStep
          => IF RecordAt(0) \in {0, 255}
             THEN trace_state'.curpos = trace_state.curpos
             ELSE trace_state'.curpos = (RecordAt(1) + 16) % 256]_vars

\* The record with slot byte 0xf8 has been decoded (curpos wrapped to 8), and
\* so have a pad record and a timestamp record of a later report buffer, which
\* left curpos at 8
C19_Witness ==
    /\ rspt.pc = "decode" /\ rspt.report = 7 /\ rspt.i = 2
    /\ ReportByte(rspt.reportdata[8], 2) = 0
    /\ ReportByte(rspt.reportdata[8], 10) = 255
    /\ trace_state.cmdid = 7
    /\ trace_state.curpos = 8

\* The header events of the output that switch the address mode
IsModeSwitch(e) == e.line \in {"brief", "command"} /\ e.spi_command \in {183, 233}

\* The session is in 4-byte mode by what was decoded so far: the last of the
\* transactions 0xb7 and 0xe9 was 0xb7, or there was none and it was opened so
In4ByteMode ==
    LET sw == SelectSeq(rspt.out, IsModeSwitch)
    IN  IF sw = <<>> THEN tloop.args.address_mode = 4
        ELSE sw[Len(sw)].spi_command = 183

\* The bytes printed by the step
BytesPrinted ==
    Len(SelectSeq(SubSeq(rspt'.out, Len(rspt.out) + 1, Len(rspt'.out)),
                  LAMBDA e : e.line = "byte"))

\* The big-endian number of the n bytes after the opcode of the record
BigEndianAddress(n) ==
    IF n = 3 THEN (RecordAt(3) * 256 + RecordAt(4)) * 256 + RecordAt(5)
    ELSE ((RecordAt(3) * 256 + RecordAt(4)) * 256 + RecordAt(5)) * 256 + RecordAt(6)

\* C20: a transaction of Dynamic address type decodes a 4-byte big-endian
\* address when the last mode switch decoded in the session, in whatever
\* record, report buffer or call, was 0xb7, and a 3-byte address when it was
\* 0xe9 (or when there was none in a session opened in 3-byte mode);
\* transactions of fixed address type decode 3 or 4 bytes by their type alone
C20_DynamicAddressFollowsMode ==
    [][(TraceRecordStep /\ RecordAt(0) \notin {0, 255} /\ RecordAt(0) # trace_state.cmdid)
          => LET address_type == get_command_vals(RecordAt(2)).address_type
                 decoded == trace_state'.address - 16 * (BytesPrinted \div 16)
             IN  CASE address_type = "Dynamic" ->
                          decoded = BigEndianAddress(IF In4ByteMode THEN 4 ELSE 3)
                   [] address_type = "Addr4B" -> decoded = BigEndianAddress(4)
                   [] address_type \in {"Addr3B", "NoOff3B"} -> decoded = BigEndianAddress(3)
                   [] OTHER -> decoded = trace_state.address]_vars

\* A session opened in 3-byte mode decoded 0xb7 in its first call, and the
\* read of its second call has the 4-byte address 0x11223344
C20_Witness ==
    /\ tloop.args.address_mode = 3 /\ tloop.reads = 2
    /\ In4ByteMode
    /\ trace_state.cmdid = 3 /\ trace_state.address = 287454020

---------------------------------------------------------------------------
(* Claims about the output of the trace decoder                            *)

\* What the step has printed
StepOut == SubSeq(rspt'.out, Len(rspt.out) + 1, Len(rspt'.out))

IsByte(e) == e.line = "byte"

\* The header line of the transaction in course is event number
\* LastCommand(out) of the output (0 when there is none)
LastCommand(out) ==
    LET cs == {p \in 1..Len(out) : out[p].line = "command"}
    IN  IF cs = {} THEN 0 ELSE CHOOSE p \in cs : \A q \in cs : q <= p

\* The hex dump of the transaction in course: what follows its header line
TxEvents(out) == SubSeq(out, LastCommand(out) + 1, Len(out))

BytesBefore(tx, p) == Len(SelectSeq(SubSeq(tx, 1, p - 1), IsByte))

\* The record is the header of a transaction
IsHeaderRecord == RecordAt(0) # trace_state.cmdid

\* The payload of the record the decoder is at: its bytes after the opcode,
\* the address and the pad bytes (for a header) or after the pad bytes left
\* over (for a continuation), up to the block length its slot byte gives
RecordPayload ==
    LET vals == get_command_vals(RecordAt(2))
        mode == header_address_mode(trace_state.address_mode, RecordAt(2))
        skip == IF IsHeaderRecord
                THEN Min(1 + address_bytes_of(vals.address_type, mode) + vals.pad_bytes,
                         MAX_TRACE_BLOCKLENGTH)
                ELSE trace_state.additional_pad_bytes
        from == IF IsHeaderRecord THEN 0 ELSE trace_state.curpos
        blocklen == ((RecordAt(1) - from) % 256) \div 8
    IN  [k \in 1..(blocklen - skip) |-> RecordAt(2 + skip + k - 1)]

\* The bytes of a sequence of events
ByteValues(events) ==
    LET bs == SelectSeq(events, IsByte) IN [k \in 1..Len(bs) |-> bs[k].value]

\* 16 bytes per line, a prefix before the first byte of each line and nowhere
\* else, and the address of the prefix running with the bytes
HexDumpShape(tx) ==
    \A p \in 1..Len(tx) :
        IF tx[p].line = "byte"
        THEN BytesBefore(tx, p) % 16 = 0 => (p > 1 /\ tx[p - 1].line # "byte")
        ELSE /\ BytesBefore(tx, p) % 16 = 0
             /\ p < Len(tx) /\ tx[p + 1].line = "byte"
             /\ tx[p].line = tx[1].line
             /\ tx[p].line = "address" => tx[p].address = tx[1].address + BytesBefore(tx, p)

\* What is added to the address of the tracker in the prefix of a line
PrefixOffset(out) ==
    IF get_command_vals(out[LastCommand(out)].spi_command).address_type = "NoOff3B"
    THEN 0 ELSE tloop.args.address_offset

\* A step of the decoder over a data record in verbose mode
VerboseStep == TraceRecordStep /\ ~trace_state.brief /\ RecordAt(0) \notin {0, 255}

\* C21: in verbose mode the bytes printed for a transaction are the
\* payloads of its records in order, 16 to a line, each line with the running
\* address before it, and the tracker's address has advanced by the number of
\* bytes printed
C21_HexDumpAddressAdvancesByBytes ==
    [][VerboseStep
          => LET tx == TxEvents(rspt'.out)
             IN  /\ ByteValues(StepOut) = RecordPayload
                 /\ HexDumpShape(tx)
                 /\ (tx # <<>> /\ tx[1].line = "address")
                       => trace_state'.address + PrefixOffset(rspt'.out)
                              = tx[1].address + Len(ByteValues(tx))]_vars

---------------------------------------------------------------------------
(* trace::read_spi_trace_console: the console of page-program payloads     *)

\* The header of a transaction in read_spi_trace_console (cmd != state.cmdid):
\* the state after it and the bytes to skip
console_header(st, data, i, cmd, spi_command, spi_cmd_vals, mode, address_bytes) ==
    [state |-> [st EXCEPT !.cmdid = cmd, !.address_mode = mode,
                          !.address = header_address(st.address, data, i, address_bytes),
                          !.additional_pad_bytes =
                              IF 1 + address_bytes + spi_cmd_vals.pad_bytes
                                     > MAX_TRACE_BLOCKLENGTH
                              THEN 1 + address_bytes + spi_cmd_vals.pad_bytes
                                     - MAX_TRACE_BLOCKLENGTH
                              ELSE 0,
                          !.curpos = 0],
     j |-> Min(1 + address_bytes + spi_cmd_vals.pad_bytes, MAX_TRACE_BLOCKLENGTH),
     do_write |-> spi_command = 2,
     opcode |-> spi_command]

\* if !do_write || spi_cmd_vals_address_type(data[i * 8 + 4]) == AddressType::None
\*    || state.address < addr_offset || state.address > addr_offset + addr_len
console_skips(do_write, address_type, address, addr_offset, addr_len) ==
    \/ ~do_write
    \/ address_type = "None"
    \/ address < addr_offset
    \/ address > addr_offset + addr_len

\* while j < blocklen { print!("{}", data[i * 8 + 4 + j] as char); j += 1 }
RECURSIVE console_payload(_, _, _, _, _)
console_payload(data, i, j, blocklen, out) ==
    IF ~(j < blocklen) THEN [out |-> out, status |-> "ok"]
    ELSE IF i * 8 + 4 + j >= REPORT_BUFFER_LENGTH
    THEN [out |-> out, status |-> "index out of bounds"]
    ELSE console_payload(data, i, j + 1, blocklen,
                         Append(out, ReportByte(data, i * 8 + 4 + j)))

\* The record printed: p is what the loop over its bytes gave
console_emit(h, slot, p) ==
    [state |-> [h.state EXCEPT !.curpos = curpos_after(slot)],
     do_write |-> h.do_write, opcode |-> h.opcode, out |-> p.out, status |-> p.status]

\* The record after its header, if it is one: h is the state, j, do_write and
\* the opcode of the transaction
console_body(h, data, i, slot, addr_offset, addr_len) ==
    IF console_skips(h.do_write, get_command_vals(ReportByte(data, i * 8 + 4)).address_type,
                     h.state.address, addr_offset, addr_len)
    THEN console_emit(h, slot, [out |-> <<>>, status |-> "ok"])
    ELSE console_emit(h, slot,
                      console_payload(data, i, h.j,
                                      ((slot - h.state.curpos) % 256) \div 8, <<>>))

\* One turn of `for i in 0..count` of read_spi_trace_console
console_record(st, data, i, do_write, opcode, addr_offset, addr_len) ==
    console_body(
        IF ReportByte(data, 2 + i * 8) # st.cmdid
        THEN console_header([st EXCEPT !.additional_pad_bytes = 0], data, i,
                 ReportByte(data, 2 + i * 8),
                 ReportByte(data, i * 8 + 4),
                 get_command_vals(ReportByte(data, i * 8 + 4)),
                 header_address_mode(st.address_mode, ReportByte(data, i * 8 + 4)),
                 address_bytes_of(
                     get_command_vals(ReportByte(data, i * 8 + 4)).address_type,
                     header_address_mode(st.address_mode, ReportByte(data, i * 8 + 4))))
        ELSE [state |-> [st EXCEPT !.additional_pad_bytes = 0],
              j |-> st.additional_pad_bytes, do_write |-> do_write, opcode |-> opcode],
        data, i, ReportByte(data, 2 + i * 8 + 1), addr_offset, addr_len)

\* read_spi_trace_console is called: the two argument checks
ConsoleCall ==
    /\ con.pc = "idle"
    /\ con' = IF con.addr_offset = 0 \/ con.addr_len = 0
              THEN [con EXCEPT !.pc = "ret", !.res = "InvalidArgument"]
              ELSE [con EXCEPT !.pc = "cmd"]
    /\ UNCHANGED <<build, lateVars, wire, em100, coreVars, traceVars, ini, fwu, fwr, sv, asct>>

\* read_report_buffer: usb::send_cmd(&cmd)?
ConsoleReadCmd ==
    /\ con.pc = "cmd"
    /\ \E o \in OutOutcomes(CMD_LEN) :
          /\ wire' = Append(wire, OutXfer(send_cmd_buf(cmd_read_report_buffer), o))
          /\ con' = IF send_cmd_result(o) = "Ok" THEN [con EXCEPT !.pc = "resp"]
                    ELSE [con EXCEPT !.pc = "ret", !.res = send_cmd_result(o)]
    /\ UNCHANGED <<build, lateVars, em100, coreVars, traceVars, ini, fwu, fwr, sv, asct>>

\* The position of the console decoder at record i of report number report;
\* do_write is false at the start of every report
console_at(f, pos) ==
    IF pos.report >= REPORT_BUFFER_COUNT
    THEN [f EXCEPT !.pc = "ret", !.res = "Ok(true)", !.report = pos.report, !.i = 0]
    ELSE [f EXCEPT !.pc = "decode", !.report = pos.report, !.i = pos.i,
                   !.do_write = IF pos.report # f.report \/ f.pc # "decode"
                                THEN FALSE ELSE @]

\* read_report_buffer: one turn of `for report in 0..REPORT_BUFFER_COUNT`
ConsoleReadReport ==
    /\ con.pc = "resp"
    /\ LET requested_len == round_up_to_max_packet(REPORT_BUFFER_LENGTH, em100.max_packet_size)
           next == IF tdev = <<>> THEN EmptyReport ELSE Head(tdev)
       IN  \E r \in ReportOutcomes(next) :
              /\ wire' = Append(wire, InReport(requested_len, r))
              /\ tdev' = IF tdev = <<>> \/ r.status # "ok" THEN tdev ELSE Tail(tdev)
              /\ con' =
                   IF r.status # "ok" THEN [con EXCEPT !.pc = "ret", !.res = "UsbTransfer"]
                   ELSE IF Min(r.actual_len, REPORT_BUFFER_LENGTH) # REPORT_BUFFER_LENGTH
                   THEN [con EXCEPT !.pc = "ret", !.res = "Communication"]
                   ELSE IF Len(con.reportdata) + 1 < REPORT_BUFFER_COUNT
                   THEN [con EXCEPT !.reportdata = Append(@, r.report)]
                   ELSE console_at([con EXCEPT !.reportdata = Append(@, r.report)],
                                   next_record(Append(con.reportdata, r.report), 0, 0))
    /\ UNCHANGED <<build, lateVars, em100, coreVars, trace_state, rspt, tloop,
                   ini, fwu, fwr, sv, asct>>

\* read_spi_trace_console: one turn of `for i in 0..count`; a panic ends the
\* process
ConsoleRecord ==
    /\ con.pc = "decode"
    /\ LET t == console_record(trace_state, con.reportdata[con.report + 1], con.i,
                               con.do_write, con.opcode, con.addr_offset, con.addr_len)
       IN  /\ trace_state' = t.state
           /\ con' = IF t.status # "ok"
                     THEN [con EXCEPT !.pc = "panic", !.res = t.status,
                                      !.out = @ \o t.out, !.opcode = t.opcode]
                     ELSE console_at([con EXCEPT !.out = @ \o t.out,
                                                 !.do_write = t.do_write,
                                                 !.opcode = t.opcode],
                                     next_record(con.reportdata, con.report, con.i + 1))
    /\ UNCHANGED <<build, lateVars, wire, em100, coreVars, rspt, tloop, tdev,
                   ini, fwu, fwr, sv, asct>>

\* A page program of "Hi" at the address b1 b2 b3, continued by a record of
\* six bytes whose first one is 0x21
PageProgramAt(b1, b2, b3) ==
    Report(2, Records(<< <<1, 48, 2, b1, b2, b3, 72, 105>>,
                         <<1, 112, 33, 10, 0, 0, 0, 0>> >>))

\* A read of two bytes at 0x001000
ReadAt1000 == Report(1, Records(<< <<2, 48, 3, 0, 16, 0, 72, 105>> >>))

\* A read of two bytes at 0x001000 and the timestamp record after it
ReportTimestampLast ==
    Report(2, Records(<< <<2, 48, 3, 0, 16, 0, 72, 105>>, <<255, 64, 0, 0, 0, 0, 0, 7>> >>))

\* The tapes of the console: a page program below the window, at its first and
\* last address, at offset + length and above it, a read inside it, and a
\* report with a pad record and a timestamp record
ConsoleTapes ==
    { <<PageProgramAt(0, 15, 255)>>, <<PageProgramAt(0, 16, 0)>>,
      <<PageProgramAt(0, 16, 15)>>, <<PageProgramAt(0, 16, 16)>>,
      <<PageProgramAt(0, 16, 17)>>, <<ReadAt1000>>,
      <<PageProgramAt(0, 16, 0), ReadAt1000>>,
      <<ReportPadTimestamp>>, <<PageProgramAt(0, 16, 0), ReportTimestampLast>> }

\* The window: --offset and --length, 0 when they are not given
ConsoleOffsets == {0, 4096}
ConsoleLengths == {0, 16}

InitConsole ==
    /\ wire = <<>> /\ LateIdle /\ sc = scIdle /\ dcfg = dcfgIdle /\ fwv = fwvIdle
    /\ sct = sctIdle /\ sd = sdIdle /\ dev = devIdle
    /\ exit_requested = FALSE /\ rx = rxIdle
    /\ em100 = [em100Idle EXCEPT !.hw_version = "Em100Pro"]
    /\ build = buildIdle
    /\ trace_state = TraceState_new(FALSE, 3) /\ rspt = rsptIdle /\ tloop = tloopIdle
    /\ tdev \in ConsoleTapes
    /\ \E o \in ConsoleOffsets, l \in ConsoleLengths :
          con = [conIdle EXCEPT !.addr_offset = o, !.addr_len = l]
    /\ ini = iniIdle /\ fwu = fwuIdle /\ fwr = fwrIdle /\ sv = svIdle /\ asct = asctIdle

NextConsole == ConsoleCall \/ ConsoleReadCmd \/ ConsoleReadReport \/ ConsoleRecord

SpecConsole == InitConsole /\ [][NextConsole]_vars

\* C22: read_spi_trace_console writes a byte only if it belongs to a page
\* program (0x02) whose address a satisfies offset <= a < offset + length
C22_ConsoleWritesOnlyInsideWindow ==
    [][(con.pc = "decode" /\ Len(con'.out) > Len(con.out))
          => /\ con'.opcode = 2
             /\ con.addr_offset <= trace_state'.address
             /\ trace_state'.address < con.addr_offset + con.addr_len]_vars

---------------------------------------------------------------------------
(* Em100::init: the JEDEC probe, the version query, the identity page *)

\* spi::get_spi_flash_id: the command
cmd_get_spi_flash_id == <<48, 0, 0, 0, 0, 0, 0, 0, 0, 0, 0, 0, 0, 0, 0, 0>>

\* spi::get_spi_flash_id: the reply is an id only when it is 3 bytes long
parse_spi_flash_id(data) ==
    IF Len(data) = 3
    THEN [status |-> "Ok", id |-> (data[1] * 65536) + (data[2] * 256) + data[3]]
    ELSE [status |-> "InvalidResponse", id |-> 0]

\* A mutation of check_status: every id is known
check_status_any(id) == TRUE

\* Em100::check_status: Micron M25P16 or MX77L12850F
check_status(id) == id = 2105365 \/ id = 12743960

\* spi::read_spi_flash_page: the command for the page at address
cmd_read_spi_flash_page(address) ==
    <<51, (address \div 65536) % 256, (address \div 256) % 256, address % 256,
      0, 0, 0, 0, 0, 0, 0, 0, 0, 0, 0, 0>>

\* spi::read_spi_flash_page: the reply is a page only when it is 256 bytes long
read_spi_flash_page_result(got) ==
    IF got.status # "Ok" THEN got.status
    ELSE IF Len(got.data) = 256 THEN "Ok" ELSE "InvalidResponse"

\* impl From<u8> for HwVersion
HwVersion_from(v) ==
    CASE v = 255 -> "Em100ProEarly"
      [] v = 4 -> "Em100Pro"
      [] v = 6 -> "Em100ProG2"
      [] OTHER -> "Unknown"

\* Em100::get_device_info: the serial number, little-endian at data[2..=5]
serial_no_of(data) ==
    (data[6] * 16777216) + (data[5] * 65536) + (data[4] * 256) + data[3]

\* The address of the identity page
DEVICE_INFO_PAGE == 2096896

\* A page of 256 bytes that starts with head and goes on with fill
PageOf(head, fill) == [i \in 1..256 |-> IF i <= Len(head) THEN head[i] ELSE fill]

\* What the device may answer to the JEDEC probe: the two known ids, an
\* unknown id (a W25Q128), a short and a long reply, a failed transfer
JedecResponses ==
    { [status |-> "ok", data |-> <<32, 32, 21>>],
      [status |-> "ok", data |-> <<194, 117, 24>>],
      [status |-> "ok", data |-> <<239, 64, 24>>],
      [status |-> "ok", data |-> <<32, 32>>],
      [status |-> "ok", data |-> <<32, 32, 21, 0>>],
      [status |-> "err", data |-> <<>>] }

\* What the device may answer to the read of the identity page: the page of
\* an EM100Pro, of an EM100Pro-G2, of an early unit, a short page, a failure
InfoResponses ==
    { [status |-> "ok", data |-> PageOf(<<0, 4, 57, 48, 0, 0>>, 255)],
      [status |-> "ok", data |-> PageOf(<<0, 6, 1, 2, 3, 4>>, 255)],
      [status |-> "ok", data |-> PageOf(<<0, 255, 0, 0, 0, 0>>, 0)],
      [status |-> "ok", data |-> <<0, 4, 57, 48, 0, 0>>],
      [status |-> "err", data |-> <<>>] }

\* The endpoint sizes of a full-speed and of a high-speed connection
PacketSizes == {64, 512}

\* init is called on the struct the constructors build: all fields zero
InitCall ==
    /\ ini.pc = "idle"
    /\ ini' = [ini EXCEPT !.pc = "probe"]
    /\ UNCHANGED <<build, lateVars, wire, em100, coreVars, traceVars, con, fwu, fwr, sv, asct>>

\* One send_cmd of init: the command goes out, and its failure ends init
ini_send(cmd, next) ==
    \E o \in OutOutcomes(CMD_LEN) :
        /\ wire' = Append(wire, OutXfer(send_cmd_buf(cmd), o))
        /\ ini' = IF send_cmd_result(o) = "Ok" THEN [ini EXCEPT !.pc = next]
                  ELSE [ini EXCEPT !.pc = "done", !.res = send_cmd_result(o)]

\* check_status: spi::get_spi_flash_id, the command
InitProbeCmd ==
    /\ ini.pc = "probe"
    /\ ini_send(cmd_get_spi_flash_id, "probe_resp")
    /\ UNCHANGED <<build, lateVars, em100, coreVars, traceVars, con, fwu, fwr, sv, asct>>

\* check_status: the reply, and `return Err(Error::StatusUnknown)`
InitProbeResp ==
    /\ ini.pc = "probe_resp"
    /\ \E r \in JedecResponses :
          LET got == get_response(512, r)
              id  == IF got.status = "Ok" THEN parse_spi_flash_id(got.data)
                     ELSE [status |-> got.status, id |-> 0]
          IN  /\ wire' = Append(wire,
                    InXfer(round_up_to_max_packet(512, em100.max_packet_size), r))
              /\ ini' = IF id.status # "Ok"
                        THEN [ini EXCEPT !.pc = "done", !.res = id.status]
                        ELSE IF ~check_status(id.id)
                        THEN [ini EXCEPT !.pc = "done", !.res = "StatusUnknown"]
                        ELSE [ini EXCEPT !.pc = "version"]
    /\ UNCHANGED <<build, lateVars, em100, coreVars, traceVars, con, fwu, fwr, sv, asct>>

\* get_version: system::get_version, the command
InitVersionCmd ==
    /\ ini.pc = "version"
    /\ ini_send(cmd_get_version, "version_resp")
    /\ UNCHANGED <<build, lateVars, em100, coreVars, traceVars, con, fwu, fwr, sv, asct>>

\* get_version: the reply; self.mcu and self.fpga are set when it parses
InitVersionResp ==
    /\ ini.pc = "version_resp"
    /\ \E r \in VersionResponses :
          LET got == get_response(512, r)
              ver == IF got.status = "Ok" THEN parse_version(got.data)
                     ELSE [status |-> got.status, mcu |-> 0, fpga |-> 0]
          IN  /\ wire' = Append(wire,
                    InXfer(round_up_to_max_packet(512, em100.max_packet_size), r))
              /\ em100' = IF ver.status = "Ok"
                          THEN [em100 EXCEPT !.mcu = ver.mcu, !.fpga = ver.fpga]
                          ELSE em100
              /\ ini' = IF ver.status = "Ok" THEN [ini EXCEPT !.pc = "info"]
                        ELSE [ini EXCEPT !.pc = "done", !.res = ver.status]
    /\ UNCHANGED <<build, lateVars, coreVars, traceVars, con, fwu, fwr, sv, asct>>

\* get_device_info: spi::read_spi_flash_page(self, 0x1fff00, ..), the command
InitInfoCmd ==
    /\ ini.pc = "info"
    /\ ini_send(cmd_read_spi_flash_page(DEVICE_INFO_PAGE), "info_resp")
    /\ UNCHANGED <<build, lateVars, em100, coreVars, traceVars, con, fwu, fwr, sv, asct>>

\* get_device_info: the page; self.serial_no and self.hw_version are set
InitInfoResp ==
    /\ ini.pc = "info_resp"
    /\ \E r \in InfoResponses :
          LET got == get_response(256, r)
              ok  == read_spi_flash_page_result(got) = "Ok"
          IN  /\ wire' = Append(wire,
                    InXfer(round_up_to_max_packet(256, em100.max_packet_size), r))
              /\ em100' = IF ok
                          THEN [em100 EXCEPT !.hw_version = HwVersion_from(got.data[2])]
                          ELSE em100
              /\ ini' = IF ok
                        THEN [ini EXCEPT !.pc = "done", !.res = "Ok",
                                         !.serial_no = serial_no_of(got.data)]
                        ELSE [ini EXCEPT !.pc = "done",
                                         !.res = read_spi_flash_page_result(got)]
    /\ UNCHANGED <<build, lateVars, coreVars, traceVars, con, fwu, fwr, sv, asct>>

InitInit ==
    /\ em100 \in [mcu : {0}, fpga : {0}, hw_version : {"Unknown"},
                  max_packet_size : PacketSizes]
    /\ ini = iniIdle /\ con = conIdle /\ fwu = fwuIdle /\ fwr = fwrIdle
    /\ sv = svIdle /\ asct = asctIdle
    /\ build = buildIdle /\ wire = <<>> /\ LateIdle /\ sc = scIdle /\ dcfg = dcfgIdle
    /\ fwv = fwvIdle /\ sct = sctIdle /\ sd = sdIdle /\ dev = devIdle
    /\ exit_requested = FALSE /\ rx = rxIdle /\ TraceIdle

NextInit ==
    \/ InitCall \/ InitProbeCmd \/ InitProbeResp \/ InitVersionCmd
    \/ InitVersionResp \/ InitInfoCmd \/ InitInfoResp

SpecInit == InitInit /\ [][NextInit]_vars

\* The commands on the wire, in order: the first bytes of each OUT transfer
CommandsSent ==
    LET outs == SelectSeq(wire, LAMBDA x : x.ep = "out")
    IN  [k \in 1..Len(outs) |-> SubSeq(outs[k].data, 1, 4)]

\* The order of init: JEDEC probe, version query, read of the page at 0x1fff00
InitOrder == <<<<48, 0, 0, 0>>, <<16, 0, 0, 0>>, <<51, 31, 255, 0>>>>

\* The reply to the JEDEC probe, once it is on the wire
ProbeReply == SelectSeq(wire, LAMBDA x : x.ep = "in")[1]

ProbeAnswered == Len(SelectSeq(wire, LAMBDA x : x.ep = "in")) >= 1

\* The probe answered with three bytes that are neither 0x202015 nor 0xc27518
UnknownJedecId ==
    /\ ProbeAnswered /\ ProbeReply.status = "ok" /\ Len(ProbeReply.data) = 3
    /\ ProbeReply.data \notin {<<32, 32, 21>>, <<194, 117, 24>>}

\* C23: init sends the JEDEC probe, then the version query 0x10, then the read
\* of the page at 0x1fff00, in that order and none of them twice; when the
\* JEDEC id is neither 0x202015 nor 0xc27518 init fails with StatusUnknown, no
\* command follows the probe, and mcu, fpga, serial and hw_version stay as
\* they were
C23_InitOrderAndUnknownStatus ==
    /\ IsPrefix(CommandsSent, InitOrder)
    /\ ini.res = "Ok" => CommandsSent = InitOrder
    /\ UnknownJedecId =>
          /\ ini.pc = "done" /\ ini.res = "StatusUnknown"
          /\ CommandsSent = <<<<48, 0, 0, 0>>>>
          /\ em100.mcu = 0 /\ em100.fpga = 0 /\ em100.hw_version = "Unknown"
          /\ ini.serial_no = 0

\* init refused the JEDEC id 0xef4018 after the probe alone
C23_Witness ==
    /\ UnknownJedecId /\ ini.res = "StatusUnknown"
    /\ CommandsSent = <<<<48, 0, 0, 0>>>>

---------------------------------------------------------------------------
(* firmware::firmware_write: unlock, erase, program, verify, boot marker *)

\* spi::unlock_spi_flash and spi::erase_spi_flash_sector: the commands
cmd_unlock_spi_flash == <<54, 0, 0, 0, 0, 0, 0, 0, 0, 0, 0, 0, 0, 0, 0, 0>>

cmd_erase_spi_flash_sector(sector) ==
    <<55, sector, 0, 0, 0, 0, 0, 0, 0, 0, 0, 0, 0, 0, 0, 0>>

\* spi::write_spi_flash_page: the command for the page at address
cmd_write_spi_flash_page(address) ==
    <<52, (address \div 65536) % 256, (address \div 256) % 256, address % 256,
      0, 0, 0, 0, 0, 0, 0, 0, 0, 0, 0, 0>>

\* spi::write_spi_flash_page: completion.status?; bytes_sent != 256
write_page_result(o) ==
    IF o.status # "ok" THEN "UsbTransfer"
    ELSE IF o.actual_len # 256 THEN "Communication"
    ELSE "Ok"

\* for i in 0..=0x1e: the sectors firmware_write erases, and the total it reports
LAST_ERASED_SECTOR == 30
ERASE_TOTAL == 31

\* The flash addresses of the MCU image and of the boot marker
MCU_BASE == 1048832
BOOT_MARKER_ADDRESS == 1048576

\* The byte of the container at index p (from 0): the container is a length
\* and a seed, and its bytes are never 0xff, the padding
FwByte(fw, p) == ((p * 7) + fw.seed) % 251

\* page.fill(0xff); page[..chunk_len].copy_from_slice(&fw[offset + i..offset + i + chunk_len])
fw_page(fw, offset, i, len) ==
    LET n == Min(len - i, 256)
    IN  [k \in 1..256 |-> IF k <= n THEN FwByte(fw, offset + i + k - 1) ELSE 255]

\* The slice &fw[offset + i..offset + i + chunk_len] is out of range
fw_slice_panics(fw, offset, i, len) == offset + i + Min(len - i, 256) > fw.len

\* let mut page = [0u8; 256]; page[0] = 0xaa; ... page[7] = 0xaa
boot_marker_page == PageOf(<<170, 85, 66, 79, 79, 84, 85, 170>>, 0)

\* (0..len).step_by(256)
page_starts(len) == [n \in 1..div_ceil(len, 256) |-> (n - 1) * 256]

\* One loop of firmware_write over an image: the page of each step, where it
\* goes in the flash, and what the progress callback is told after it
fw_steps(op, what, fw, offset, len, base, done_before) ==
    [n \in 1..Len(page_starts(len)) |->
        LET i == page_starts(len)[n]
        IN  [op |-> op, what |-> what, address |-> base + i,
             panics |-> fw_slice_panics(fw, offset, i, len),
             page |-> fw_page(fw, offset, i, len),
             done |-> done_before + Min(i + 256, len)]]

marker_step(op) ==
    <<[op |-> op, what |-> "marker", address |-> BOOT_MARKER_ADDRESS, panics |-> FALSE,
       page |-> boot_marker_page, done |-> 0]>>

\* A mutation of fw_plan: the marker is programmed before the read-back
fw_plan_marker_first(fw, info, verify) ==
    fw_steps("write", "fpga", fw, info.fpga_offset, info.fpga_len, 0, 0)
      \o fw_steps("write", "mcu", fw, info.mcu_offset, info.mcu_len, MCU_BASE, info.fpga_len)
      \o marker_step("write")
      \o (IF verify
          THEN fw_steps("read", "fpga", fw, info.fpga_offset, info.fpga_len, 0, 0)
                 \o fw_steps("read", "mcu", fw, info.mcu_offset, info.mcu_len, MCU_BASE, info.fpga_len)
          ELSE <<>>)
      \o (IF verify THEN marker_step("read") ELSE <<>>)

\* A mutation of fw_plan: the read-back of the marker is left out
fw_plan_marker_unverified(fw, info, verify) ==
    fw_steps("write", "fpga", fw, info.fpga_offset, info.fpga_len, 0, 0)
      \o fw_steps("write", "mcu", fw, info.mcu_offset, info.mcu_len, MCU_BASE, info.fpga_len)
      \o (IF verify
          THEN fw_steps("read", "fpga", fw, info.fpga_offset, info.fpga_len, 0, 0)
                 \o fw_steps("read", "mcu", fw, info.mcu_offset, info.mcu_len, MCU_BASE, info.fpga_len)
          ELSE <<>>)
      \o marker_step("write")

\* The loops of firmware_write after the second JEDEC probe, in the order of
\* the code: program FPGA, program MCU, if verify read back FPGA and MCU,
\* program the marker, if verify read back the marker
fw_plan(fw, info, verify) ==
    fw_steps("write", "fpga", fw, info.fpga_offset, info.fpga_len, 0, 0)
      \o fw_steps("write", "mcu", fw, info.mcu_offset, info.mcu_len, MCU_BASE, info.fpga_len)
      \o (IF verify
          THEN fw_steps("read", "fpga", fw, info.fpga_offset, info.fpga_len, 0, 0)
                 \o fw_steps("read", "mcu", fw, info.mcu_offset, info.mcu_len, MCU_BASE, info.fpga_len)
          ELSE <<>>)
      \o marker_step("write")
      \o (IF verify THEN marker_step("read") ELSE <<>>)

\* The plan of the running update, and its current step
FwPlan == fw_plan(fwu.fw, fwu.info, fwu.verify)

FwStep == FwPlan[fwu.k]

\* The frame when step k is to begin: the slice of the step is taken first
fw_goto(f, k) ==
    LET plan == fw_plan(f.fw, f.info, f.verify)
    IN  IF k > Len(plan) THEN [f EXCEPT !.pc = "done", !.res = "Ok", !.k = k]
        ELSE IF plan[k].panics THEN [f EXCEPT !.pc = "done", !.res = "panic", !.k = k]
        ELSE [f EXCEPT !.k = k,
                       !.pc = IF plan[k].op = "write" THEN "write_cmd" ELSE "read_cmd"]

\* The frame when step k is over: the progress callback, then the next step
fw_step_done(f, k) ==
    LET st == fw_plan(f.fw, f.info, f.verify)[k]
        told == IF st.what = "marker" THEN f.progress
                ELSE Append(f.progress,
                       <<st.done, f.info.fpga_len + f.info.mcu_len,
                         IF st.op = "write" THEN "Writing" ELSE "Verifying">>)
    IN  fw_goto([f EXCEPT !.progress = told], k + 1)

fw_fail(f, res) == [f EXCEPT !.pc = "done", !.res = res]

\* if page != vpage { return Err(Error::VerificationFailed) }
pages_differ(page, vpage) == page # vpage

\* One send_cmd of firmware_write: the command goes out, and its failure ends it
fwu_send(cmd, after) ==
    \E o \in OutOutcomes(CMD_LEN) :
        /\ wire' = Append(wire, OutXfer(send_cmd_buf(cmd), o))
        /\ fwu' = IF send_cmd_result(o) = "Ok" THEN after
                  ELSE fw_fail(fwu, send_cmd_result(o))

\* firmware_write is called
FwWriteCall ==
    /\ fwu.pc = "idle"
    /\ fwu' = [fwu EXCEPT !.pc = "unlock"]
    /\ UNCHANGED <<build, lateVars, wire, em100, coreVars, traceVars, con, ini, fwr, sv, asct>>

\* spi::unlock_spi_flash(em100)?
FwUnlock ==
    /\ fwu.pc = "unlock"
    /\ fwu_send(cmd_unlock_spi_flash, [fwu EXCEPT !.pc = "id_cmd", !.stage = 1])
    /\ UNCHANGED <<build, lateVars, em100, coreVars, traceVars, con, ini, fwr, sv, asct>>

\* spi::get_spi_flash_id(em100)?, before and after the erase: the command
FwIdCmd ==
    /\ fwu.pc = "id_cmd"
    /\ fwu_send(cmd_get_spi_flash_id, [fwu EXCEPT !.pc = "id_resp"])
    /\ UNCHANGED <<build, lateVars, em100, coreVars, traceVars, con, ini, fwr, sv, asct>>

\* spi::get_spi_flash_id(em100)?: the reply; the id itself is not looked at
FwIdResp ==
    /\ fwu.pc = "id_resp"
    /\ \E r \in JedecResponses :
          LET got == get_response(512, r)
              res == IF got.status = "Ok" THEN parse_spi_flash_id(got.data).status
                     ELSE got.status
          IN  /\ wire' = Append(wire,
                    InXfer(round_up_to_max_packet(512, em100.max_packet_size), r))
              /\ fwu' = IF res # "Ok" THEN fw_fail(fwu, res)
                        ELSE IF fwu.stage = 1 THEN [fwu EXCEPT !.pc = "erase", !.i = 0]
                        ELSE fw_goto(fwu, 1)
    /\ UNCHANGED <<build, lateVars, em100, coreVars, traceVars, con, ini, fwr, sv, asct>>

\* for i in 0..=0x1e { spi::erase_spi_flash_sector(em100, i)?; cb(i + 1, 0x1f, "Erasing") }
FwErase ==
    /\ fwu.pc = "erase"
    /\ fwu_send(cmd_erase_spi_flash_sector(fwu.i),
          LET told == Append(fwu.progress, <<fwu.i + 1, ERASE_TOTAL, "Erasing">>)
          IN  IF fwu.i < LAST_ERASED_SECTOR
              THEN [fwu EXCEPT !.i = fwu.i + 1, !.progress = told]
              ELSE [fwu EXCEPT !.pc = "id_cmd", !.stage = 2, !.progress = told])
    /\ UNCHANGED <<build, lateVars, em100, coreVars, traceVars, con, ini, fwr, sv, asct>>

\* spi::write_spi_flash_page: the command
FwWriteCmd ==
    /\ fwu.pc = "write_cmd"
    /\ fwu_send(cmd_write_spi_flash_page(FwStep.address), [fwu EXCEPT !.pc = "write_data"])
    /\ UNCHANGED <<build, lateVars, em100, coreVars, traceVars, con, ini, fwr, sv, asct>>

\* spi::write_spi_flash_page: the 256 bytes of the page
FwWriteData ==
    /\ fwu.pc = "write_data"
    /\ \E o \in OutOutcomes(256) :
          /\ wire' = Append(wire, OutXfer(FwStep.page, o))
          /\ fwu' = IF write_page_result(o) = "Ok" THEN fw_step_done(fwu, fwu.k)
                    ELSE fw_fail(fwu, write_page_result(o))
    /\ UNCHANGED <<build, lateVars, em100, coreVars, traceVars, con, ini, fwr, sv, asct>>

\* spi::read_spi_flash_page: the command
FwReadCmd ==
    /\ fwu.pc = "read_cmd"
    /\ fwu_send(cmd_read_spi_flash_page(FwStep.address), [fwu EXCEPT !.pc = "read_resp"])
    /\ UNCHANGED <<build, lateVars, em100, coreVars, traceVars, con, ini, fwr, sv, asct>>

\* The page with the byte at position at changed
ChangedAt(page, at) ==
    [k \in 1..256 |-> IF k = at THEN (page[k] + 1) % 256 ELSE page[k]]

\* What the flash may hold where page was programmed: the page, the page with
\* its first byte or its last byte changed, a short reply, a failed transfer
ReadBacks(page) ==
    { [status |-> "ok", data |-> page],
      [status |-> "ok", data |-> ChangedAt(page, 1)],
      [status |-> "ok", data |-> ChangedAt(page, 256)],
      [status |-> "ok", data |-> SubSeq(page, 1, 8)],
      [status |-> "err", data |-> <<>>] }

\* spi::read_spi_flash_page: the reply, and the comparison with the page
FwReadResp ==
    /\ fwu.pc = "read_resp"
    /\ \E r \in ReadBacks(FwStep.page) :
          LET got == get_response(256, r)
              res == read_spi_flash_page_result(got)
          IN  /\ wire' = Append(wire,
                    InXfer(round_up_to_max_packet(256, em100.max_packet_size), r))
              /\ fwu' = IF res # "Ok" THEN fw_fail(fwu, res)
                        ELSE IF pages_differ(FwStep.page, got.data)
                        THEN fw_fail(fwu, "VerificationFailed")
                        ELSE fw_step_done(fwu, fwu.k)
    /\ UNCHANGED <<build, lateVars, em100, coreVars, traceVars, con, ini, fwr, sv, asct>>

\* The longest FPGA and MCU images of an update, in bytes
MaxFpgaLen == 300
MaxMcuLen == 256

\* Containers as validate_firmware lays them out (the images follow the
\* 0x100-byte header), and one container cut short inside its MCU image
FwUpdates ==
    { [fw |-> [len |-> 256 + fl + ml - cut, seed |-> 3],
       info |-> [fpga_offset |-> 256, fpga_len |-> fl,
                 mcu_offset |-> 256 + fl, mcu_len |-> ml]] :
        fl \in {256, MaxFpgaLen}, ml \in {100, MaxMcuLen}, cut \in {0, 50} }

InitFwWrite ==
    /\ \E u \in FwUpdates, v \in BOOLEAN :
          fwu = [fwuIdle EXCEPT !.fw = u.fw, !.info = u.info, !.verify = v]
    /\ em100 = [em100Idle EXCEPT !.hw_version = "Em100Pro"]
    /\ ini = iniIdle /\ con = conIdle /\ fwr = fwrIdle /\ sv = svIdle /\ asct = asctIdle
    /\ build = buildIdle /\ wire = <<>> /\ LateIdle /\ sc = scIdle /\ dcfg = dcfgIdle
    /\ fwv = fwvIdle /\ sct = sctIdle /\ sd = sdIdle /\ dev = devIdle
    /\ exit_requested = FALSE /\ rx = rxIdle /\ TraceIdle

NextFwWrite ==
    \/ FwWriteCall \/ FwUnlock \/ FwIdCmd \/ FwIdResp \/ FwErase
    \/ FwWriteCmd \/ FwWriteData \/ FwReadCmd \/ FwReadResp

SpecFwWrite == InitFwWrite /\ [][NextFwWrite]_vars

\* The wire at position p holds a command that went out whole
CmdAt(p, cmd) ==
    /\ p \in DOMAIN wire /\ wire[p].ep = "out" /\ wire[p].data = send_cmd_buf(cmd)
    /\ wire[p].status = "ok" /\ wire[p].actual_len = CMD_LEN

\* Before position upto, page was programmed whole at address
ProgrammedBefore(address, page, upto) ==
    \E p \in 1..(upto - 2) :
        /\ CmdAt(p, cmd_write_spi_flash_page(address))
        /\ wire[p + 1].ep = "out" /\ wire[p + 1].data = page
        /\ wire[p + 1].status = "ok" /\ wire[p + 1].actual_len = 256

\* Before position upto, the page at address was read back and was page
ReadBackBefore(address, page, upto) ==
    \E p \in 1..(upto - 2) :
        /\ CmdAt(p, cmd_read_spi_flash_page(address))
        /\ wire[p + 1].ep = "in" /\ wire[p + 1].status = "ok" /\ wire[p + 1].data = page

\* The positions of the command that programs the boot marker
MarkerCmds ==
    { p \in DOMAIN wire :
        wire[p].ep = "out" /\ Len(wire[p].data) = CMD_LEN
          /\ SubSeq(wire[p].data, 1, 4) = <<52, 16, 0, 0>> }

\* The pages of the two images, 0xff-padded, with their flash addresses
ImagePages ==
    LET f == fw_steps("write", "fpga", fwu.fw, fwu.info.fpga_offset, fwu.info.fpga_len, 0, 0)
        m == fw_steps("write", "mcu", fwu.fw, fwu.info.mcu_offset, fwu.info.mcu_len,
                      MCU_BASE, fwu.info.fpga_len)
    IN  { (f \o m)[n] : n \in 1..(Len(f) + Len(m)) }

\* The number of steps that come before the marker is programmed
StepsBeforeMarker == Cardinality(ImagePages) * (IF fwu.verify THEN 2 ELSE 1)

\* The marker page, spelled out: the tag and 248 zero bytes
MarkerBytes == <<170, 85, 66, 79, 79, 84, 85, 170>> \o Zeros(248)

\* C24: the boot marker page (0xaa 0x55 "BOOT" 0x55 0xaa and 248 zeros) is
\* programmed at 0x100000 only after every FPGA and MCU page was programmed
\* and, with verify, read back equal; when a step before it fails, no command
\* that programs the marker is ever sent
C24_MarkerAfterAllPages ==
    /\ \A p \in MarkerCmds :
          /\ \A st \in ImagePages :
                /\ ProgrammedBefore(st.address, st.page, p)
                /\ fwu.verify => ReadBackBefore(st.address, st.page, p)
          /\ (p + 1) \in DOMAIN wire =>
                wire[p + 1].ep = "out" /\ wire[p + 1].data = MarkerBytes
    /\ (fwu.res \notin {"none", "Ok"} /\ fwu.k <= StepsBeforeMarker) => MarkerCmds = {}

\* A verified update of two FPGA pages and one MCU page has written the marker
C24_Witness ==
    /\ fwu.verify /\ fwu.info.fpga_len = MaxFpgaLen /\ fwu.res = "Ok"
    /\ ProgrammedBefore(BOOT_MARKER_ADDRESS, MarkerBytes, Len(wire) + 1)

\* The page that went out after the command that programs address, if any
WrittenAt(address) ==
    { wire[p + 1].data : p \in { q \in 1..(Len(wire) - 1) :
                                   CmdAt(q, cmd_write_spi_flash_page(address))
                                     /\ wire[q + 1].ep = "out" } }

\* The address of the page-read command at position p
ReadAddress(p) == (wire[p].data[2] * 65536) + (wire[p].data[3] * 256) + wire[p].data[4]

\* The positions of the page-read commands (0x33)
ReadCmds ==
    { p \in DOMAIN wire :
        wire[p].ep = "out" /\ Len(wire[p].data) = CMD_LEN /\ wire[p].data[1] = 51 }

\* C25: without verify no page-read command (0x33) is sent; with verify, an
\* update that returns Ok has read back every FPGA and MCU page and the marker
\* page, and a whole page read back that differs from the page programmed at
\* its address, which is the image chunk padded with 0xff, ends the update
\* with VerificationFailed
C25_VerifyExplicitAndHard ==
    /\ ~fwu.verify => ReadCmds = {}
    /\ (fwu.verify /\ fwu.res = "Ok") =>
          /\ \A st \in ImagePages : ReadBackBefore(st.address, st.page, Len(wire) + 1)
          /\ ReadBackBefore(BOOT_MARKER_ADDRESS, MarkerBytes, Len(wire) + 1)
    /\ \A p \in ReadCmds :
          ( /\ (p + 1) \in DOMAIN wire /\ wire[p].status = "ok"
            /\ wire[p].actual_len = CMD_LEN
            /\ wire[p + 1].status = "ok" /\ Len(wire[p + 1].data) = 256
            /\ wire[p + 1].data \notin WrittenAt(ReadAddress(p)) )
          => (fwu.res = "VerificationFailed" /\ p + 1 = Len(wire))
    /\ \A st \in ImagePages :
          WrittenAt(st.address) \subseteq {st.page}

\* A read-back that differs only in the 0xff padding of the last FPGA page
\* has failed the update
C25_Witness ==
    /\ fwu.verify /\ fwu.res = "VerificationFailed" /\ fwu.info.fpga_len = MaxFpgaLen
    /\ FwStep.address = 256 /\ wire[Len(wire)].ep = "in"
    /\ wire[Len(wire)].data = ChangedAt(FwStep.page, 256)
    /\ FwStep.page[256] = 255

---------------------------------------------------------------------------
(* firmware::firmware_read: the dump of the internal flash, page by page *)

MB == 1048576

\* let rom_size = match id { 0x202015 => 2 * MB, 0xc27518 => 16 * MB, _ => Err }
rom_size_of(id) ==
    CASE id = 2105365 -> 2 * MB
      [] id = 12743960 -> 16 * MB
      [] OTHER -> 0

\* What the flash holds at address: a page that names its address
FlashPage(address) ==
    PageOf(<<(address \div 65536) % 256, (address \div 256) % 256, 165>>, 255)

\* What the device may answer to the read of the page at address: the page,
\* a short reply, a failed transfer
PageResponses(address) ==
    { [status |-> "ok", data |-> FlashPage(address)],
      [status |-> "ok", data |-> <<0, 4, 57, 48>>],
      [status |-> "err", data |-> <<>>] }

\* A mutation of attempt_failed: a fourth attempt is made
attempt_failed_four(f) ==
    IF f.retry = 3
    THEN [f EXCEPT !.pc = "done", !.res = "Communication: Couldn't read"]
    ELSE [f EXCEPT !.pc = "page_cmd", !.retry = f.retry + 1]

\* for retry in 0..3 { if read(..).is_ok() { break } if retry == 2 { return Err(Communication) } }
attempt_failed(f) ==
    IF f.retry = 2
    THEN [f EXCEPT !.pc = "done", !.res = "Communication: Couldn't read"]
    ELSE [f EXCEPT !.pc = "page_cmd", !.retry = f.retry + 1]

\* break; cb(i + 256, rom_size, "Reading"); the next i of (0..rom_size).step_by(256)
attempt_ok(f, page) ==
    LET g == [f EXCEPT !.data = Append(f.data, page), !.retry = 0, !.i = f.i + 256,
                       !.progress = Append(f.progress, <<f.i + 256, f.rom_size, "Reading">>)]
    IN  IF f.i + 256 < f.rom_size THEN [g EXCEPT !.pc = "page_cmd"]
        ELSE [g EXCEPT !.pc = "done", !.res = "Ok"]

\* What the OUT endpoint may report for the command of an attempt: all of it,
\* or a failed transfer
PageCmdOutcomes ==
    { o \in OutOutcomes(CMD_LEN) : o.status = "err" \/ o.actual_len = CMD_LEN }

\* The number of pages of a dump that are followed
MaxDumpPages == 2

\* firmware_read is called
FwReadCall ==
    /\ fwr.pc = "idle"
    /\ fwr' = [fwr EXCEPT !.pc = "id_cmd"]
    /\ UNCHANGED <<build, lateVars, wire, em100, coreVars, traceVars, con, ini, fwu, sv, asct>>

\* spi::get_spi_flash_id(em100)?: the command
FwReadIdCmd ==
    /\ fwr.pc = "id_cmd"
    /\ \E o \in OutOutcomes(CMD_LEN) :
          /\ wire' = Append(wire, OutXfer(send_cmd_buf(cmd_get_spi_flash_id), o))
          /\ fwr' = IF send_cmd_result(o) = "Ok" THEN [fwr EXCEPT !.pc = "id_resp"]
                    ELSE [fwr EXCEPT !.pc = "done", !.res = send_cmd_result(o)]
    /\ UNCHANGED <<build, lateVars, em100, coreVars, traceVars, con, ini, fwu, sv, asct>>

\* spi::get_spi_flash_id(em100)?: the reply, and the size of the flash
FwReadIdResp ==
    /\ fwr.pc = "id_resp"
    /\ \E r \in JedecResponses :
          LET got == get_response(512, r)
              id  == IF got.status = "Ok" THEN parse_spi_flash_id(got.data)
                     ELSE [status |-> got.status, id |-> 0]
          IN  /\ wire' = Append(wire,
                    InXfer(round_up_to_max_packet(512, em100.max_packet_size), r))
              /\ fwr' = IF id.status # "Ok"
                        THEN [fwr EXCEPT !.pc = "done", !.res = id.status]
                        ELSE IF rom_size_of(id.id) = 0
                        THEN [fwr EXCEPT !.pc = "done", !.res = "InvalidFirmware"]
                        ELSE [fwr EXCEPT !.pc = "page_cmd", !.i = 0, !.retry = 0,
                                         !.rom_size = rom_size_of(id.id)]
    /\ UNCHANGED <<build, lateVars, em100, coreVars, traceVars, con, ini, fwu, sv, asct>>

\* spi::read_spi_flash_page(em100, i, ..): the command of one attempt
FwReadPageCmd ==
    /\ fwr.pc = "page_cmd"
    /\ fwr.i \div 256 < MaxDumpPages
    /\ \E o \in PageCmdOutcomes :
          /\ wire' = Append(wire, OutXfer(send_cmd_buf(cmd_read_spi_flash_page(fwr.i)), o))
          /\ fwr' = IF send_cmd_result(o) = "Ok" THEN [fwr EXCEPT !.pc = "page_resp"]
                    ELSE attempt_failed(fwr)
    /\ UNCHANGED <<build, lateVars, em100, coreVars, traceVars, con, ini, fwu, sv, asct>>

\* spi::read_spi_flash_page(em100, i, ..): the reply of one attempt
FwReadPageResp ==
    /\ fwr.pc = "page_resp"
    /\ \E r \in PageResponses(fwr.i) :
          LET got == get_response(256, r)
          IN  /\ wire' = Append(wire,
                    InXfer(round_up_to_max_packet(256, em100.max_packet_size), r))
              /\ fwr' = IF read_spi_flash_page_result(got) = "Ok"
                        THEN attempt_ok(fwr, got.data)
                        ELSE attempt_failed(fwr)
    /\ UNCHANGED <<build, lateVars, em100, coreVars, traceVars, con, ini, fwu, sv, asct>>

InitFwRead ==
    /\ em100 = [em100Idle EXCEPT !.hw_version = "Em100Pro"]
    /\ fwr = fwrIdle
    /\ ini = iniIdle /\ con = conIdle /\ fwu = fwuIdle /\ sv = svIdle /\ asct = asctIdle
    /\ build = buildIdle /\ wire = <<>> /\ LateIdle /\ sc = scIdle /\ dcfg = dcfgIdle
    /\ fwv = fwvIdle /\ sct = sctIdle /\ sd = sdIdle /\ dev = devIdle
    /\ exit_requested = FALSE /\ rx = rxIdle /\ TraceIdle

NextFwRead ==
    \/ FwReadCall \/ FwReadIdCmd \/ FwReadIdResp \/ FwReadPageCmd \/ FwReadPageResp

SpecFwRead == InitFwRead /\ [][NextFwRead]_vars

\* The attempts to read a page, in order: the address the command asks for,
\* whether the page came back whole, and whether the attempt is over
AttemptAt(p) ==
    LET sent == wire[p].status = "ok" /\ wire[p].actual_len = CMD_LEN
        answered == (p + 1) \in DOMAIN wire /\ wire[p + 1].ep = "in"
    IN  [address |-> ReadAddress(p),
         ok |-> sent /\ answered /\ wire[p + 1].status = "ok"
                  /\ Len(wire[p + 1].data) = 256,
         over |-> ~sent \/ answered]

IsReadCmd(x) == x.ep = "out" /\ Len(x.data) = CMD_LEN /\ x.data[1] = 51

RECURSIVE AttemptsFrom(_)
AttemptsFrom(p) ==
    IF p > Len(wire) THEN <<>>
    ELSE IF IsReadCmd(wire[p]) THEN <<AttemptAt(p)>> \o AttemptsFrom(p + 1)
    ELSE AttemptsFrom(p + 1)

Attempts == AttemptsFrom(1)

\* The attempts n-2, n-1 and n of att all failed at the same address
ThreeFailed(att, n) ==
    /\ n >= 3
    /\ \A m \in (n - 2)..n : att[m].over /\ ~att[m].ok
    /\ att[n - 2].address = att[n].address
    /\ att[n - 1].address = att[n].address

AttemptsInOrder(att) ==
    /\ Len(att) > 0 => att[1].address = 0
    /\ \A n \in 1..(Len(att) - 1) :
          /\ att[n].over
          /\ att[n + 1].address =
               IF att[n].ok THEN att[n].address + 256 ELSE att[n].address
          /\ ~ThreeFailed(att, n)
    /\ fwr.res = "Communication: Couldn't read" <=> ThreeFailed(att, Len(att))
    /\ Len(fwr.data) = Cardinality({ n \in DOMAIN att : att[n].ok })

\* C26: a page read that fails is tried again, three attempts in all: the
\* dump goes on to the next page as soon as one attempt succeeds, it fails
\* exactly when three attempts in a row have failed for one page, and no page
\* before the current one is read again
C26_PageReadRetried == AttemptsInOrder(Attempts)

\* The first page was read at the third attempt, and the second page failed
\* three times
C26_Witness ==
    /\ fwr.res = "Communication: Couldn't read" /\ Len(Attempts) = 6
    /\ Attempts[3].ok /\ Attempts[3].address = 0 /\ Attempts[6].address = 256
    /\ fwr.data = <<FlashPage(0)>>

---------------------------------------------------------------------------
(* system::set_voltage *)

\* enum SetVoltageChannel: TriggerVcc = 0 .. BufferVcc = 4
SetVoltageChannels == 0..4
BufferVcc == 4

\* if matches!(channel, BufferVcc) && mv != 18 && mv != 25 && mv != 33
set_voltage_rejects(channel, mv) ==
    channel = BufferVcc /\ mv # 18 /\ mv # 25 /\ mv # 33

\* let cmd = [0x11, channel as u8, (mv >> 8) as u8, (mv & 0xff) as u8, 0, ..]
cmd_set_voltage(channel, mv) ==
    <<17, channel, mv \div 256, mv % 256, 0, 0, 0, 0, 0, 0, 0, 0, 0, 0, 0, 0>>

\* The voltages a caller asks for: in millivolts, in tenths of a volt, and
\* the ends of u16
VoltageInputs == {0, 18, 25, 33, 1234, 1800, 2500, 3300, 65535}

\* set_voltage is called: the check of the BufferVcc voltages
SetVoltageCall ==
    /\ sv.pc = "idle"
    /\ sv' = IF set_voltage_rejects(sv.channel, sv.mv)
             THEN [sv EXCEPT !.pc = "done", !.res = "InvalidArgument"]
             ELSE [sv EXCEPT !.pc = "send"]
    /\ UNCHANGED <<build, lateVars, wire, em100, coreVars, traceVars, con, ini, fwu, fwr, asct>>

\* usb::send_cmd(em100, &cmd)?; Ok(())
SetVoltageSend ==
    /\ sv.pc = "send"
    /\ \E o \in OutOutcomes(CMD_LEN) :
          /\ wire' = Append(wire, OutXfer(send_cmd_buf(cmd_set_voltage(sv.channel, sv.mv)), o))
          /\ sv' = [sv EXCEPT !.pc = "done", !.res = send_cmd_result(o)]
    /\ UNCHANGED <<build, lateVars, em100, coreVars, traceVars, con, ini, fwu, fwr, asct>>

InitVolt ==
    /\ \E c \in SetVoltageChannels, mv \in VoltageInputs :
          sv = [svIdle EXCEPT !.channel = c, !.mv = mv]
    /\ em100 = [em100Idle EXCEPT !.hw_version = "Em100Pro"]
    /\ ini = iniIdle /\ con = conIdle /\ fwu = fwuIdle /\ fwr = fwrIdle /\ asct = asctIdle
    /\ build = buildIdle /\ wire = <<>> /\ LateIdle /\ sc = scIdle /\ dcfg = dcfgIdle
    /\ fwv = fwvIdle /\ sct = sctIdle /\ sd = sdIdle /\ dev = devIdle
    /\ exit_requested = FALSE /\ rx = rxIdle /\ TraceIdle

NextVolt == SetVoltageCall \/ SetVoltageSend

SpecVolt == InitVolt /\ [][NextVolt]_vars

\* C27: on BufferVcc the command 0x11 is sent only for mv in {1800, 2500,
\* 3300}, and every other mv returns InvalidArgument with nothing sent; the
\* other channels send the command for any mv
C27_BufferVccMillivolts ==
    /\ (sv.channel = BufferVcc /\ wire # <<>>) => sv.mv \in {1800, 2500, 3300}
    /\ (sv.channel = BufferVcc /\ sv.mv \notin {1800, 2500, 3300} /\ sv.pc = "done")
          => (sv.res = "InvalidArgument" /\ wire = <<>>)
    /\ (sv.channel # BufferVcc /\ sv.pc = "done")
          => (Len(wire) = 1 /\ SubSeq(wire[1].data, 1, 4)
                                 = <<17, sv.channel, sv.mv \div 256, sv.mv % 256>>)

---------------------------------------------------------------------------
(* Em100Async::set_chip_type, the browser back-end, next to Em100::set_chip_type *)

\* Em100Async::get_spi_flash_id: a reply of 3 bytes or more is an id
web_parse_spi_flash_id(data) ==
    IF Len(data) >= 3
    THEN [status |-> "Ok", id |-> (data[1] * 65536) + (data[2] * 256) + data[3]]
    ELSE [status |-> "InvalidResponse", id |-> 0]

\* if chip.size > 16 * 1024 * 1024 { self.set_address_mode(4).await? }
needs_4byte_mode(chip) == chip.size > 16 * MB

\* Em100Async::set_address_mode(4): write_fpga_register(0x4f, 1)
cmd_set_address_mode_4 == cmd_write_fpga_register(79, 1)

\* Where Em100Async::set_chip_type goes after emulation is stopped: the
\* voltage scan of the init list on the cached FPGA version
web_after_stop(f) ==
    LET req == required_switch(f.chip, f.fpga)
    IN  [f EXCEPT !.fpga_voltage = fpga_voltage_of(f.fpga), !.req = req, !.idx = 0,
                  !.pc = IF req # 0 THEN "reconf"
                         ELSE IF init_entries(f.chip) # <<>> THEN "replay"
                         ELSE "fin"]

\* One web_usb::send_cmd of the browser back-end on its own connection
asct_send(cmd, o, after) ==
    asct' = IF send_cmd_result(o) = "Ok"
            THEN [after EXCEPT !.wire = Append(asct.wire, OutXfer(send_cmd_buf(cmd), o))]
            ELSE [asct EXCEPT !.wire = Append(asct.wire, OutXfer(send_cmd_buf(cmd), o)),
                              !.pc = "done", !.res = send_cmd_result(o)]

\* Em100Async::set_chip_type is called, after the blocking call has returned
WebSetChipTypeCall ==
    /\ asct.pc = "idle" /\ sct.pc = "done"
    /\ asct' = [asct EXCEPT !.pc = "stop"]
    /\ UNCHANGED <<build, lateVars, wire, em100, coreVars, traceVars, con, ini, fwu, fwr, sv>>

\* self.write_fpga_register(0x28, 0).await?
WebStopEmulation ==
    /\ asct.pc = "stop"
    /\ \E o \in OutOutcomes(CMD_LEN) :
          asct_send(cmd_write_fpga_register(40, 0), o, web_after_stop(asct))
    /\ UNCHANGED <<build, lateVars, wire, em100, coreVars, traceVars, con, ini, fwu, fwr, sv>>

\* set_fpga_voltage: the FPGA-reconfigure command
WebFpgaReconfigure ==
    /\ asct.pc = "reconf"
    /\ \E o \in OutOutcomes(CMD_LEN) :
          asct_send(cmd_fpga_reconfigure, o, [asct EXCEPT !.pc = "vsel"])
    /\ UNCHANGED <<build, lateVars, wire, em100, coreVars, traceVars, con, ini, fwu, fwr, sv>>

\* set_fpga_voltage: the voltage-select command
WebFpgaVoltageSelect ==
    /\ asct.pc = "vsel"
    /\ \E o \in OutOutcomes(CMD_LEN) :
          asct_send(cmd_fpga_voltage(asct.req), o, [asct EXCEPT !.pc = "sleep"])
    /\ UNCHANGED <<build, lateVars, wire, em100, coreVars, traceVars, con, ini, fwu, fwr, sv>>

\* set_fpga_voltage: the 2 s timeout
WebFpgaSleep ==
    /\ asct.pc = "sleep"
    /\ asct' = [asct EXCEPT !.pc = "getver", !.wire = Append(asct.wire, Sleep(2))]
    /\ UNCHANGED <<build, lateVars, wire, em100, coreVars, traceVars, con, ini, fwu, fwr, sv>>

\* set_fpga_voltage: let _ = self.get_version().await, the command
WebGetVersionCmd ==
    /\ asct.pc = "getver"
    /\ \E o \in OutOutcomes(CMD_LEN) :
          LET sent == [asct EXCEPT !.wire = Append(asct.wire,
                                       OutXfer(send_cmd_buf(cmd_get_version), o))]
          IN  asct' = IF send_cmd_result(o) = "Ok" THEN [sent EXCEPT !.pc = "getver_resp"]
                      ELSE switch_verdict(sent, sent.fpga)
    /\ UNCHANGED <<build, lateVars, wire, em100, coreVars, traceVars, con, ini, fwu, fwr, sv>>

\* set_fpga_voltage: let _ = self.get_version().await, the reply and the verdict
WebGetVersionResp ==
    /\ asct.pc = "getver_resp"
    /\ \E r \in VersionResponses :
          LET got == get_response(512, r)
              ver == IF got.status = "Ok" THEN parse_version(got.data)
                     ELSE [status |-> got.status, mcu |-> 0, fpga |-> 0]
              now == [asct EXCEPT
                        !.wire = Append(asct.wire,
                            InXfer(round_up_to_max_packet(512, em100.max_packet_size), r)),
                        !.mcu = IF ver.status = "Ok" THEN ver.mcu ELSE asct.mcu,
                        !.fpga = IF ver.status = "Ok" THEN ver.fpga ELSE asct.fpga]
          IN  asct' = switch_verdict(now, now.fpga)
    /\ UNCHANGED <<build, lateVars, wire, em100, coreVars, traceVars, con, ini, fwu, fwr, sv>>

\* web_usb::send_cmd(&mut self.endpoint_out, entry).await? for one entry
WebReplayInit ==
    /\ asct.pc = "replay"
    /\ \E o \in OutOutcomes(CMD_LEN) :
          asct_send(init_entries(asct.chip)[asct.idx + 1], o,
                    IF asct.idx + 1 < Len(init_entries(asct.chip))
                    THEN [asct EXCEPT !.idx = asct.idx + 1]
                    ELSE [asct EXCEPT !.pc = "fin", !.idx = 0])
    /\ UNCHANGED <<build, lateVars, wire, em100, coreVars, traceVars, con, ini, fwu, fwr, sv>>

\* The three write_fpga_register calls after the replay, one each
WebWriteFinalRegister ==
    /\ asct.pc = "fin"
    /\ \E o \in OutOutcomes(CMD_LEN) :
          LET rv == final_registers[asct.idx + 1]
          IN  asct_send(cmd_write_fpga_register(rv[1], rv[2]), o,
                        IF asct.idx + 1 < Len(final_registers)
                        THEN [asct EXCEPT !.idx = asct.idx + 1]
                        ELSE IF needs_4byte_mode(asct.chip)
                        THEN [asct EXCEPT !.pc = "addrmode"]
                        ELSE [asct EXCEPT !.pc = "done", !.res = "Ok"])
    /\ UNCHANGED <<build, lateVars, wire, em100, coreVars, traceVars, con, ini, fwu, fwr, sv>>

\* self.set_address_mode(4).await?
WebSetAddressMode ==
    /\ asct.pc = "addrmode"
    /\ \E o \in OutOutcomes(CMD_LEN) :
          asct_send(cmd_set_address_mode_4, o, [asct EXCEPT !.pc = "done", !.res = "Ok"])
    /\ UNCHANGED <<build, lateVars, wire, em100, coreVars, traceVars, con, ini, fwu, fwr, sv>>

\* Chip descriptors: no init list, a 1.8 V chip, a 3.3 V chip of 32 MB, a chip
\* of 64 MB without a voltage entry
WebChips ==
    { [init |-> <<>>, init_len |-> 0, size |-> 2 * MB],
      [init |-> <<<<17, 4, 7, 8>>, <<35, 16, 0, 0>>>>, init_len |-> 2, size |-> 16 * MB],
      [init |-> <<<<17, 4, 12, 228>>>>, init_len |-> 1, size |-> 32 * MB],
      [init |-> <<<<35, 196, 0, 1>>>>, init_len |-> 1, size |-> 64 * MB] }

\* Both back-ends are given the same chip and hold the same cached versions
InitWeb ==
    /\ em100 \in [mcu : {539}, fpga : {85, 32853}, hw_version : {"Em100Pro"},
                  max_packet_size : {512}]
    /\ \E c \in WebChips :
          /\ sct = [sctIdle EXCEPT !.chip = [init |-> c.init, init_len |-> c.init_len]]
          /\ asct = [asctIdle EXCEPT !.chip = c, !.mcu = em100.mcu, !.fpga = em100.fpga]
    /\ ini = iniIdle /\ con = conIdle /\ fwu = fwuIdle /\ fwr = fwrIdle /\ sv = svIdle
    /\ build = buildIdle /\ wire = <<>> /\ LateIdle /\ sc = scIdle /\ dcfg = dcfgIdle
    /\ fwv = fwvIdle /\ sd = sdIdle /\ dev = devIdle
    /\ exit_requested = FALSE /\ rx = rxIdle /\ TraceIdle

NextWeb ==
    \/ SetChipTypeCall \/ FpgaReconfigure \/ FpgaVoltageSelect \/ FpgaSleep
    \/ GetVersionCmd \/ GetVersionResp \/ ReplayInit \/ WriteFinalRegister
    \/ WebSetChipTypeCall \/ WebStopEmulation \/ WebFpgaReconfigure
    \/ WebFpgaVoltageSelect \/ WebFpgaSleep \/ WebGetVersionCmd \/ WebGetVersionResp
    \/ WebReplayInit \/ WebWriteFinalRegister \/ WebSetAddressMode

SpecWeb == InitWeb /\ [][NextWeb]_vars

\* The commands of a log, in order: the bytes of each OUT transfer
CommandsOf(log) ==
    LET outs == SelectSeq(log, LAMBDA x : x.ep = "out")
    IN  [k \in 1..Len(outs) |-> outs[k].data]

\* C28: for the same chip descriptor and the same cached FPGA version the
\* blocking and the browser set_chip_type send the same commands in the same
\* order: when both have returned Ok, their command sequences are equal
C28_BackEndsSendSameCommands ==
    (sct.pc = "done" /\ sct.res = "Ok" /\ asct.pc = "done" /\ asct.res = "Ok")
        => CommandsOf(asct.wire) = CommandsOf(wire)

---------------------------------------------------------------------------
(* The init list parse_dcfg builds from the primary region *)

\* The (value, reg) pairs of the primary region of the parsed file, from the
\* init offset of its header to the end of the region
PairCount ==
    LET init_offset == read_u32(dcfg.data, 8)
    IN  IF init_offset + 4 > DEDIPROG_CFG_PRO_SIZE THEN 0
        ELSE (DEDIPROG_CFG_PRO_SIZE - init_offset) \div 4

PairValue(k) == read_u16(dcfg.data, read_u32(dcfg.data, 8) + 4 * (k - 1))

PairReg(k) == read_u16(dcfg.data, read_u32(dcfg.data, 8) + 4 * (k - 1) + 2)

IsSentinel(k) == PairValue(k) = 65535 /\ PairReg(k) = 65535

\* 0x2300 before the first sentinel, 0x1100 after it
OffsetAt(k) == IF \E j \in 1..(k - 1) : IsSentinel(j) THEN 4352 ELSE 8960

\* The record of pair k: the 16-bit sum reg + off and the value, big-endian
RecordOf(k) ==
    LET full_reg == (PairReg(k) + OffsetAt(k)) % 65536
    IN  <<full_reg \div 256, full_reg % 256, PairValue(k) \div 256, PairValue(k) % 256>>

\* One record for each pair that is not a sentinel, in input order
PrimaryRecords ==
    LET kept == SelectSeq([k \in 1..PairCount |-> k], LAMBDA k : ~IsSentinel(k))
    IN  [n \in 1..Len(kept) |-> RecordOf(kept[n])]

\* C29: of the primary region, parse_dcfg emits one record [hi(reg + off),
\* lo(reg + off), hi(value), lo(value)] for each pair that is not the sentinel
\* (0xffff, 0xffff), in input order, with off = 0x2300 before the first
\* sentinel and 0x1100 for all pairs after it; a sentinel emits nothing and a
\* later sentinel changes nothing
C29_PrimaryRecordsFollowOffset ==
    (dcfg.pc = "done" /\ dcfg.res.status = "Ok") =>
        /\ IsPrefix(PrimaryRecords, dcfg.res.chip.init)
        /\ Len(dcfg.data) < DEDIPROG_CFG_PRO_SIZE + 4
              => dcfg.res.chip.init = PrimaryRecords

\* A file was parsed whose primary region has pairs before its first
\* sentinel, a second sentinel, and pairs after that
C29_Witness ==
    /\ dcfg.pc = "done" /\ dcfg.res.status = "Ok"
    /\ \E j, l, k \in 1..PairCount :
          /\ 1 < j /\ j < l /\ l < k
          /\ IsSentinel(j) /\ IsSentinel(l) /\ ~IsSentinel(1) /\ ~IsSentinel(k)
    /\ Len(dcfg.res.chip.init) = PairCount - 2

---------------------------------------------------------------------------
(* The init records parse_dcfg builds from an SRST section *)

\* The extra sections of the parsed file as the section loop meets them: the
\* kind of each and the file offset of its payload
RECURSIVE SectionsFrom(_, _)
SectionsFrom(ptr, length) ==
    IF length < 4 THEN <<>>
    ELSE IF read_u32(dcfg.data, ptr) = DEDIPROG_SFDP_MAGIC
    THEN <<[kind |-> "SFDP", at |-> ptr + 4]>>
           \o SectionsFrom(ptr + 4 + 256, saturating_sub(length - 4, 256))
    ELSE IF read_u32(dcfg.data, ptr) = DEDIPROG_SRST_MAGIC
    THEN <<[kind |-> "SRST", at |-> ptr + 4]>>
           \o SectionsFrom(ptr + 4 + 144, saturating_sub(length - 4, 144))
    ELSE <<>>

\* Byte i of the payload of a section
Payload(sec, i) == At(dcfg.data, sec.at + i)

StartsWithPROT(sec) ==
    <<Payload(sec, 0), Payload(sec, 1), Payload(sec, 2), Payload(sec, 3)>>
        = <<80, 82, 79, 84>>

\* The records of an SRST section as stated: the three leading entries when
\* the payload does not start with PROT, the PROT enable, and one 0xc5 record
\* for each 2-byte word after the PROT marker
SrstRecords(sec) ==
    LET lead  == IF StartsWithPROT(sec) THEN <<>>
                 ELSE [j \in 1..3 |-> <<35, Payload(sec, 4 * (j - 1) + 2),
                                        Payload(sec, 4 * (j - 1) + 1),
                                        Payload(sec, 4 * (j - 1))>>]
        first == IF StartsWithPROT(sec) THEN 4 ELSE 16
        words == [n \in 1..((144 - first) \div 2) |->
                    <<35, 197, Payload(sec, first + 2 * (n - 1) + 1),
                      Payload(sec, first + 2 * (n - 1))>>]
    IN  lead \o <<<<35, 196, 0, 1>>>> \o words

\* The number of records a section adds when there is room: 1 + 128 for SFDP
RecordCount(sec) == IF sec.kind = "SFDP" THEN 129 ELSE Len(SrstRecords(sec))

RECURSIVE RecordsBefore(_, _)
RecordsBefore(secs, n) ==
    IF n <= 1 THEN Len(PrimaryRecords)
    ELSE RecordsBefore(secs, n - 1) + RecordCount(secs[n - 1])

\* Section n of secs is an SRST section whose records all fit in the list
SrstWithRoom(secs, n) ==
    /\ secs[n].kind = "SRST"
    /\ RecordsBefore(secs, n) + RecordCount(secs[n]) <= NUM_INIT_ENTRIES

SrstAsStated(secs) ==
    \A n \in DOMAIN secs :
        SrstWithRoom(secs, n) =>
            SubSeq(dcfg.res.chip.init, RecordsBefore(secs, n) + 1,
                   RecordsBefore(secs, n) + RecordCount(secs[n])) = SrstRecords(secs[n])

\* C30: an SRST section with a 144-byte payload and room in the init list
\* adds, when the payload does not start with PROT, the three records [0x23,
\* payload[4j+2], payload[4j+1], payload[4j]] and skips the PROT marker after
\* them; in all cases [0x23, 0xc4, 0x00, 0x01]; then [0x23, 0xc5, payload[i+1],
\* payload[i]] for every 2-byte word of the rest of the payload, in order
C30_SrstRecords ==
    (dcfg.pc = "done" /\ dcfg.res.status = "Ok") =>
        SrstAsStated(SectionsFrom(DEDIPROG_CFG_PRO_SIZE,
                                  Len(dcfg.data) - DEDIPROG_CFG_PRO_SIZE))

\* A file was parsed that has, after an SFDP section, an SRST section that
\* does not start with PROT and fits in the list
C30_Witness ==
    /\ dcfg.pc = "done" /\ dcfg.res.status = "Ok"
    /\ LET secs == SectionsFrom(DEDIPROG_CFG_PRO_SIZE,
                                Len(dcfg.data) - DEDIPROG_CFG_PRO_SIZE)
       IN  /\ Len(secs) >= 2 /\ secs[1].kind = "SFDP"
           /\ SrstWithRoom(secs, 2) /\ ~StartsWithPROT(secs[2])
           /\ Len(dcfg.res.chip.init) = 197

---------------------------------------------------------------------------
(* Specification SpecSwitch: set_fpga_voltage called from main for          *)
(* --set-voltage with --debug, on a device whose version is cached          *)

\* The voltage codes main hands to set_fpga_voltage: "1.8" and "3.3"
SetVoltageCodes == {18, 33}

InitSwitch ==
    /\ em100 \in [mcu : {539}, fpga : {85, 32853}, hw_version : {"Em100Pro"},
                  max_packet_size : {64, 512}]
    /\ sct = sctIdle
    /\ build = buildIdle /\ wire = <<>> /\ LateIdle /\ sc = scIdle /\ dcfg = dcfgIdle
    /\ fwv = fwvIdle /\ sd = sdIdle /\ dev = devIdle
    /\ exit_requested = FALSE /\ rx = rxIdle /\ TraceIdle /\ OpIdle

\* main: em100.set_fpga_voltage(voltage_code)
SetFpgaVoltageCall ==
    /\ sct.pc = "idle" /\ sct.req = 0
    /\ \E voltage_code \in SetVoltageCodes :
          sct' = [sct EXCEPT !.req = voltage_code, !.pc = "reconf"]
    /\ UNCHANGED <<build, lateVars, wire, em100, sc, dcfg, fwv, sd, dev, exit_requested, rx, traceVars, opVars>>

NextSwitch ==
    \/ SetFpgaVoltageCall \/ FpgaReconfigure \/ FpgaVoltageSelect \/ FpgaSleep
    \/ GetVersionCmd \/ GetVersionResp

SpecSwitch == InitSwitch /\ [][NextSwitch]_vars

\* What set_fpga_voltage sent and did so far, by the first byte of each
\* command: 0 for a sleep, 256 for an IN transfer
SwitchSteps ==
    [i \in 1..Len(wire) |->
        IF wire[i].ep = "out" THEN wire[i].data[1]
        ELSE IF wire[i].ep = "sleep" THEN 0 ELSE 256]

\* The version query of set_fpga_voltage was answered with a version
QueryAnswered ==
    /\ Len(wire) = 5 /\ wire[5].ep = "in"
    /\ get_response(512, wire[5]).status = "Ok"
    /\ parse_version(get_response(512, wire[5]).data).status = "Ok"

\* The FPGA version that answer carries
QueriedFpga == parse_version(get_response(512, wire[5]).data).fpga

\* set_fpga_voltage sends 0x20, 0x24 with the bytes of the voltage, sleeps 2 s
\* and sends 0x10, in this order
SwitchOrder ==
    /\ IsPrefix(SwitchSteps, <<32, 36, 0, 16, 256>>)
    /\ Len(wire) >= 2 =>
          SubSeq(wire[2].data, 3, 4) = (IF sct.req = 18 THEN <<7, 128>> ELSE <<0, 0>>)
    /\ Len(wire) >= 3 => wire[3].secs = 2

\* C31: set_fpga_voltage sends 0x20, 0x24 (bytes 2..3 = 7, 0x80 for 1.8 V,
\* zeros for 3.3 V), sleeps 2 s and sends the version query 0x10, in this
\* order, and it returns true if and only if the FPGA version obtained by that
\* query has bit 15 set exactly when 1.8 V was requested.
C31_SwitchAnswerFromQuery ==
    /\ SwitchOrder
    /\ sct.switch_ret # "none" =>
          (sct.switch_ret = "true"
              <=> (QueryAnswered /\ (fpga_bit15(QueriedFpga) <=> sct.req = 18)))

\* The order alone, and the answer whenever the query was answered
C31_OrderAndAnsweredQuery ==
    /\ SwitchOrder
    /\ (sct.switch_ret # "none" /\ QueryAnswered) =>
          (sct.switch_ret = "true" <=> (fpga_bit15(QueriedFpga) <=> sct.req = 18))

\* set_fpga_voltage returned true though its version query was never answered
C31_TrueWithoutAnswer ==
    sct.switch_ret = "true" /\ ~QueryAnswered /\ Len(wire) >= 4

---------------------------------------------------------------------------
(* Specification SpecCarry: the trace mode over transactions whose header   *)
(* skips more than the six payload bytes of a record                        *)

\* fast dual read (0x3b, Dynamic, two pad bytes) of six bytes: in 4-byte mode
\* the second pad byte is the first payload byte of the second record
ReportCarry ==
    Report(2, Records(<< <<13, 48, 59, 0, 1, 2, 3, 238>>,
                         <<13, 112, 221, 161, 162, 163, 164, 165>> >>))

\* The same with a pad record between the two records
ReportCarryPad ==
    Report(3, Records(<< <<14, 48, 59, 0, 1, 2, 3, 238>>, <<0, 0, 0, 0, 0, 0, 0, 0>>,
                         <<14, 112, 221, 161, 162, 163, 164, 165>> >>))

\* The same with a timestamp record between the two records
ReportCarryTimestamp ==
    Report(3, Records(<< <<15, 48, 59, 0, 1, 2, 3, 238>>, <<255, 0, 0, 0, 0, 0, 0, 9>>,
                         <<15, 112, 221, 161, 162, 163, 164, 165>> >>))

\* The header alone, the last record of its report
ReportCarryHeader == Report(1, Records(<< <<16, 48, 187, 0, 1, 2, 3, 238>> >>))

\* The second record of that transaction, the first record of its report
ReportCarryRest == Report(1, Records(<< <<16, 112, 221, 161, 162, 163, 164, 165>> >>))

\* a read of 0x001234 in one record with slot byte 0, a pad record, and a
\* write enable
ReportBrief ==
    Report(3, Records(<< <<1, 0, 3, 0, 18, 52, 0, 0>>, <<0, 0, 0, 0, 0, 0, 0, 0>>,
                         <<2, 8, 6, 0, 0, 0, 0, 0>> >>))

CarryReports ==
    {ReportCarry, ReportCarryPad, ReportCarryTimestamp, ReportCarryHeader,
     ReportCarryRest, ReportRead, ReportEnter4b, ReportFixed, ReportBrief}

CarryTapes == { <<a, b>> : a \in CarryReports, b \in CarryReports }

InitCarry ==
    /\ wire = <<>> /\ LateIdle /\ sc = scIdle /\ dcfg = dcfgIdle /\ fwv = fwvIdle
    /\ sct = sctIdle /\ sd = sdIdle /\ dev = devIdle
    /\ exit_requested = FALSE /\ rx = rxIdle /\ OpIdle
    /\ em100 = [em100Idle EXCEPT !.hw_version = "Em100Pro"]
    /\ build = buildIdle
    /\ trace_state = trace_stateIdle /\ rspt = rsptIdle
    /\ \E a \in TraceArgs :
          /\ ~a.start /\ ~a.stop /\ ~a.holdpin /\ a.address_offset = 0
          /\ tloop = [tloopIdle EXCEPT !.args = a]
          /\ tdev \in CarryTapes

SpecCarry == InitCarry /\ [][NextTrace]_vars

\* skip = 1 + address_bytes + pad_bytes of the header record the decoder is at
HeaderSkip ==
    LET vals == get_command_vals(RecordAt(2))
        mode == header_address_mode(trace_state.address_mode, RecordAt(2))
    IN  1 + address_bytes_of(vals.address_type, mode) + vals.pad_bytes

IsDataRecord == RecordAt(0) \notin {0, 255}

\* The header of a transaction with skip > 6 stores skip - 6
CarryStored ==
    (TraceRecordStep /\ IsDataRecord /\ IsHeaderRecord /\ HeaderSkip > MAX_TRACE_BLOCKLENGTH)
        => trace_state'.additional_pad_bytes = HeaderSkip - MAX_TRACE_BLOCKLENGTH

\* A later record of the transaction takes the carry: its first bytes, as many
\* as the carry, are not printed
CarryConsumed ==
    (VerboseStep /\ ~IsHeaderRecord)
        => /\ ByteValues(StepOut) = RecordPayload
           /\ trace_state'.additional_pad_bytes = 0

\* A pad record and a timestamp record leave the carry as it is
CarryKept ==
    (TraceRecordStep /\ ~IsDataRecord)
        => trace_state'.additional_pad_bytes = trace_state.additional_pad_bytes

\* C32: when the first record of a transaction has skip = 1 + address_bytes
\* + pad_bytes > 6, skip - 6 is stored as additional_pad_bytes and consumed by
\* the next record of the same transaction, whose first skip - 6 payload bytes
\* are not emitted; pad (0x00) and timestamp (0xff) records between the two
\* neither consume nor clear the carry.
C32_CarryAcrossPadRecords ==
    [][CarryStored /\ CarryConsumed /\ CarryKept]_vars

\* The carry is stored by the header and taken by the record after it
C32_CarryStoredAndConsumed == [][CarryStored /\ CarryConsumed]_vars

\* A pad or timestamp record has cleared a carry of 1
C32_CarryCleared ==
    [][~(TraceRecordStep /\ ~IsDataRecord /\ trace_state.additional_pad_bytes = 1
          /\ trace_state'.additional_pad_bytes = 0)]_vars

---------------------------------------------------------------------------
(* The lines of the brief mode                                             *)

\* The cmd bytes of the records of a report buffer that the decoder visits
CmdsOf(data) == [q \in 1..report_count(data) |-> ReportByte(data, 2 + (q - 1) * 8)]

\* The cmd bytes of the records of this call before record i of report
\* number report, in the order the decoder visited them
RECURSIVE CmdsBefore(_, _, _)
CmdsBefore(reportdata, report, i) ==
    IF report = 0 THEN SubSeq(CmdsOf(reportdata[1]), 1, i)
    ELSE CmdsBefore(reportdata, report - 1, report_count(reportdata[report]))
            \o SubSeq(CmdsOf(reportdata[report + 1]), 1, i)

IsDataCmd(c) == c \notin {0, 255}

\* The cmd byte of the data record before the one the decoder is at: of this
\* call, or the one the tracker came with when the call has had none
PreviousDataCmd ==
    LET d == SelectSeq(CmdsBefore(rspt.reportdata, rspt.report, rspt.i), IsDataCmd)
    IN  IF d = <<>> THEN trace_state.cmdid ELSE d[Len(d)]

\* The line of the brief mode for the record the decoder is at
BriefLine ==
    LET vals == get_command_vals(RecordAt(2))
        mode == header_address_mode(trace_state.address_mode, RecordAt(2))
    IN  [line |-> "brief", spi_command |-> RecordAt(2), name |-> vals.name,
         address |-> IF vals.address_type = "None" THEN -1
                     ELSE BigEndianAddress(address_bytes_of(vals.address_type, mode))]

\* C33: in brief mode a line is printed exactly when the cmd byte of a data
\* record differs from the cmd byte of the data record before it, never for
\* a pad, timestamp or continuation record; the line has the SPI opcode (the
\* first payload byte), its name in the table, and the big-endian address of
\* the 3 or 4 payload bytes after the opcode if and only if the address type
\* of the opcode is not None.
C33_BriefOneLinePerTransaction ==
    [][(TraceRecordStep /\ trace_state.brief)
          => StepOut = IF IsDataRecord /\ RecordAt(0) # PreviousDataCmd
                       THEN <<BriefLine>> ELSE <<>>]_vars

\* The record [0x01,0x00,0x03,0x00,0x12,0x34,0x00,0x00] in 3-byte mode has
\* given the line of a read at 0x001234, and the pad record and the write
\* enable after it one more line, without an address
C33_Witness ==
    /\ trace_state.brief /\ tloop.args.address_mode = 3 /\ rspt.pc = "ret"
    /\ Len(rspt.out) >= 2
    /\ rspt.out[1] = [line |-> "brief", spi_command |-> 3, name |-> "read", address |-> 4660]
    /\ rspt.out[2] = [line |-> "brief", spi_command |-> 6, name |-> "write enable",
                      address |-> -1]

---------------------------------------------------------------------------
(* read_spi_trace_console against read_spi_trace on the same report buffers *)

\* read_spi_trace over the records of reportdata from the position pos on:
\* the TraceState it ends with
RECURSIVE trace_fold(_, _, _, _)
trace_fold(st, reportdata, pos, addr_offset) ==
    IF pos.report >= REPORT_BUFFER_COUNT THEN st
    ELSE LET t == trace_record(st, reportdata[pos.report + 1], pos.i, addr_offset, FALSE)
         IN  IF t.status # "ok" THEN t.state
             ELSE trace_fold(t.state, reportdata,
                             next_record(reportdata, pos.report, pos.i + 1), addr_offset)

\* The fields of the tracker that the parsing of the records decides
TrackerFields(st) ==
    <<st.cmdid, st.curpos, st.address_mode, st.address, st.additional_pad_bytes>>

\* What read_spi_trace would have left of the TraceState the console started
\* with, over the report buffers the console has read
TraceModeState ==
    trace_fold(TraceState_new(FALSE, 3), con.reportdata,
               next_record(con.reportdata, 0, 0), con.addr_offset)

\* C34: read_spi_trace_console and read_spi_trace, started from the same
\* TraceState over the same report buffers, end with the same cmdid, curpos,
\* address_mode, address and additional_pad_bytes; pad (0x00) and timestamp
\* (0xff) records start no transaction in console mode.
C34_ConsoleParsesLikeTrace ==
    (con.pc = "ret" /\ con.res = "Ok(true)")
        => TrackerFields(trace_state) = TrackerFields(TraceModeState)

\* The same for the report buffers without pad and timestamp records
C34_SameWithoutPadRecords ==
    (con.pc = "ret" /\ con.res = "Ok(true)"
        /\ \A r \in 1..Len(con.reportdata) :
              \A q \in 1..report_count(con.reportdata[r]) :
                  IsDataCmd(CmdsOf(con.reportdata[r])[q]))
        => TrackerFields(trace_state) = TrackerFields(TraceModeState)

---------------------------------------------------------------------------
(* Em100::set_serial_no.  A serial number is held as its four bytes, least *)
(* significant first, as they lie at bytes 2..5 of the identity page.       *)

\* old_serial of the page read, as data[2], data[3], data[4], data[5]
serial_bytes_of(data) == SubSeq(data, 3, 6)

\* data[2] = serial as u8; data[3] = (serial >> 8) as u8; ..
with_serial(data, serial) ==
    [i \in 1..256 |-> IF i \in 3..6 THEN serial[i - 2] ELSE data[i]]

\* A mutation of serial_steps: the magic page is preserved whatever the old
\* serial is
serial_steps_always_preserve(old_serial, serial) ==
    IF old_serial = serial THEN <<>>
    ELSE <<"read_magic", "unlock", "flash_id", "erase", "write_magic">>
            \o <<"write_identity", "get_device_info">>

\* What set_serial_no does after it has read the identity page
serial_steps(old_serial, serial) ==
    IF old_serial = serial THEN <<>>
    ELSE (IF old_serial # <<255, 255, 255, 255>>
          THEN <<"read_magic", "unlock", "flash_id", "erase", "write_magic">>
          ELSE <<>>)
            \o <<"write_identity", "get_device_info">>

\* The command a step sends: the magic page is at 0x1f0000, in sector 0x1f
serial_cmd(step) ==
    CASE step = "read_magic" -> cmd_read_spi_flash_page(2031616)
      [] step = "unlock" -> cmd_unlock_spi_flash
      [] step = "flash_id" -> cmd_get_spi_flash_id
      [] step = "erase" -> cmd_erase_spi_flash_sector(31)
      [] step = "write_magic" -> cmd_write_spi_flash_page(2031616)
      [] step = "write_identity" -> cmd_write_spi_flash_page(DEVICE_INFO_PAGE)
      [] OTHER -> cmd_read_spi_flash_page(DEVICE_INFO_PAGE)

\* A step is done: the next one, or Ok(())
serial_advance(f) ==
    IF f.k + 1 >= Len(f.steps) THEN [f EXCEPT !.pc = "done", !.res = "Ok", !.k = @ + 1]
    ELSE [f EXCEPT !.pc = "step", !.k = @ + 1]

serial_fail(f, res) == [f EXCEPT !.pc = "done", !.res = res]

\* What the device may answer to the first read of the identity page: a page
\* with serial 0x00003039, a page never written, a short page, a failure
IdentityResponses ==
    { [status |-> "ok", data |-> PageOf(<<0, 4, 57, 48, 0, 0, 7>>, 255)],
      [status |-> "ok", data |-> PageOf(<<0, 4>>, 255)],
      [status |-> "ok", data |-> <<0, 4, 57, 48, 0, 0>>],
      [status |-> "err", data |-> <<>>] }

\* What it may answer to the read of the page at 0x1f0000
MagicResponses ==
    { [status |-> "ok", data |-> PageOf(<<170, 85>>, 0)],
      [status |-> "err", data |-> <<>>] }

\* The serial numbers asked for: 0x00003039 and 0x04030201
NewSerials == { <<57, 48, 0, 0>>, <<1, 2, 3, 4>> }

\* set_serial_no(serial) is called
SetSerialNoCall ==
    /\ ssn.pc = "idle"
    /\ ssn' = [ssn EXCEPT !.pc = "first_cmd"]
    /\ UNCHANGED <<build, wire, em100, coreVars, traceVars, opVars, ht, dp, dl, fwp>>

\* spi::read_spi_flash_page(self, 0x1fff00, &mut data[..256])?, the command
SerialFirstCmd ==
    /\ ssn.pc = "first_cmd"
    /\ \E o \in OutOutcomes(CMD_LEN) :
          /\ wire' = Append(wire,
                OutXfer(send_cmd_buf(cmd_read_spi_flash_page(DEVICE_INFO_PAGE)), o))
          /\ ssn' = IF send_cmd_result(o) = "Ok" THEN [ssn EXCEPT !.pc = "first_resp"]
                    ELSE serial_fail(ssn, send_cmd_result(o))
    /\ UNCHANGED <<build, em100, coreVars, traceVars, opVars, ht, dp, dl, fwp>>

\* The page, old_serial, `if old_serial == serial { return Ok(()) }` and the
\* new serial in data[2..=5]
SerialFirstResp ==
    /\ ssn.pc = "first_resp"
    /\ \E r \in IdentityResponses :
          LET got == get_response(256, r)
              res == read_spi_flash_page_result(got)
              steps == serial_steps(serial_bytes_of(got.data), ssn.serial)
          IN  /\ wire' = Append(wire,
                    InXfer(round_up_to_max_packet(256, em100.max_packet_size), r))
              /\ ssn' = IF res # "Ok" THEN serial_fail(ssn, res)
                        ELSE IF steps = <<>> THEN [ssn EXCEPT !.pc = "done", !.res = "Ok"]
                        ELSE [ssn EXCEPT !.pc = "step", !.k = 0, !.steps = steps,
                                         !.page = with_serial(got.data, ssn.serial)]
    /\ UNCHANGED <<build, em100, coreVars, traceVars, opVars, ht, dp, dl, fwp>>

\* The send_cmd of the step in course
SerialStepCmd ==
    /\ ssn.pc = "step"
    /\ LET step == ssn.steps[ssn.k + 1]
       IN  \E o \in OutOutcomes(CMD_LEN) :
              /\ wire' = Append(wire, OutXfer(send_cmd_buf(serial_cmd(step)), o))
              /\ ssn' = IF send_cmd_result(o) # "Ok"
                        THEN serial_fail(ssn, send_cmd_result(o))
                        ELSE IF step \in {"read_magic", "flash_id", "get_device_info"}
                        THEN [ssn EXCEPT !.pc = "resp"]
                        ELSE IF step \in {"write_magic", "write_identity"}
                        THEN [ssn EXCEPT !.pc = "data"]
                        ELSE serial_advance(ssn)
    /\ UNCHANGED <<build, em100, coreVars, traceVars, opVars, ht, dp, dl, fwp>>

\* spi::write_spi_flash_page: the 256 bytes of &data[256..512] or &data[..256]
SerialStepData ==
    /\ ssn.pc = "data"
    /\ \E o \in OutOutcomes(256) :
          /\ wire' = Append(wire,
                OutXfer(IF ssn.steps[ssn.k + 1] = "write_magic" THEN ssn.magic
                        ELSE ssn.page, o))
          /\ ssn' = IF write_page_result(o) = "Ok" THEN serial_advance(ssn)
                    ELSE serial_fail(ssn, write_page_result(o))
    /\ UNCHANGED <<build, em100, coreVars, traceVars, opVars, ht, dp, dl, fwp>>

\* The answer to the command of the step: the page at 0x1f0000, the JEDEC id
\* (looked at for its length only), or the identity page of get_device_info
SerialStepResp ==
    /\ ssn.pc = "resp"
    /\ LET step == ssn.steps[ssn.k + 1]
           length == IF step = "flash_id" THEN 512 ELSE 256
       IN  \E r \in (IF step = "flash_id" THEN JedecResponses
                     ELSE IF step = "read_magic" THEN MagicResponses
                     ELSE {[status |-> "ok", data |-> ssn.page],
                           [status |-> "err", data |-> <<>>]}) :
              LET got == get_response(length, r)
                  res == IF step # "flash_id" THEN read_spi_flash_page_result(got)
                         ELSE IF got.status = "Ok" THEN parse_spi_flash_id(got.data).status
                         ELSE got.status
              IN  /\ wire' = Append(wire,
                        InXfer(round_up_to_max_packet(length, em100.max_packet_size), r))
                  /\ em100' = IF res = "Ok" /\ step = "get_device_info"
                              THEN [em100 EXCEPT !.hw_version = HwVersion_from(got.data[2])]
                              ELSE em100
                  /\ ssn' = IF res # "Ok" THEN serial_fail(ssn, res)
                            ELSE IF step = "read_magic"
                            THEN serial_advance([ssn EXCEPT !.magic = got.data])
                            ELSE serial_advance(ssn)
    /\ UNCHANGED <<build, coreVars, traceVars, opVars, ht, dp, dl, fwp>>

InitSerial ==
    /\ wire = <<>> /\ sc = scIdle /\ dcfg = dcfgIdle /\ fwv = fwvIdle
    /\ sct = sctIdle /\ sd = sdIdle /\ dev = devIdle
    /\ exit_requested = FALSE /\ rx = rxIdle /\ TraceIdle /\ OpIdle
    /\ em100 \in [mcu : {539}, fpga : {85}, hw_version : {"Em100Pro"},
                  max_packet_size : PacketSizes]
    /\ build = buildIdle /\ ht = htIdle /\ dp = dpIdle /\ dl = dlIdle /\ fwp = fwpIdle
    /\ \E s \in NewSerials : ssn = [ssnIdle EXCEPT !.serial = s]

NextSerial ==
    \/ SetSerialNoCall \/ SerialFirstCmd \/ SerialFirstResp
    \/ SerialStepCmd \/ SerialStepData \/ SerialStepResp

SpecSerial == InitSerial /\ [][NextSerial]_vars

\* What went over USB, in order: the bytes of an OUT transfer, <<>> for an IN
SerialSent == [i \in 1..Len(wire) |-> IF wire[i].ep = "out" THEN wire[i].data ELSE <<>>]

\* The identity page and the page at 0x1f0000 as the device delivered them
OldIdentity == wire[2].data
OldMagic == wire[4].data

\* The three commands with an address, and the two without
ReadPage(address) == send_cmd_buf(cmd_read_spi_flash_page(address))
ProgramPage(address) == send_cmd_buf(cmd_write_spi_flash_page(address))
Unlock == send_cmd_buf(cmd_unlock_spi_flash)
FlashId == send_cmd_buf(cmd_get_spi_flash_id)
EraseSector(sector) == send_cmd_buf(cmd_erase_spi_flash_sector(sector))

\* The old identity page, bytes 2..5 replaced by the new serial
NewIdentity ==
    [i \in 1..256 |-> IF i \in 3..6 THEN ssn.serial[i - 2] ELSE OldIdentity[i]]

\* The end of every change: program the identity page and read it again
IdentityTraffic ==
    <<ProgramPage(2096896), NewIdentity, ReadPage(2096896), <<>>>>

\* The traffic of a call that returned Ok, as stated: unlock, then erase
SerialTrafficAsStated ==
    IF SubSeq(OldIdentity, 3, 6) = ssn.serial THEN <<ReadPage(2096896), <<>>>>
    ELSE IF SubSeq(OldIdentity, 3, 6) = <<255, 255, 255, 255>>
    THEN <<ReadPage(2096896), <<>>>> \o IdentityTraffic
    ELSE <<ReadPage(2096896), <<>>, ReadPage(2031616), <<>>, Unlock, EraseSector(31),
           ProgramPage(2031616), OldMagic>> \o IdentityTraffic

\* The same with the JEDEC id query and its answer between unlock and erase
SerialTraffic ==
    IF SubSeq(OldIdentity, 3, 6) = ssn.serial THEN <<ReadPage(2096896), <<>>>>
    ELSE IF SubSeq(OldIdentity, 3, 6) = <<255, 255, 255, 255>>
    THEN <<ReadPage(2096896), <<>>>> \o IdentityTraffic
    ELSE <<ReadPage(2096896), <<>>, ReadPage(2031616), <<>>, Unlock, FlashId, <<>>,
           EraseSector(31), ProgramPage(2031616), OldMagic>> \o IdentityTraffic

SerialOk == ssn.pc = "done" /\ ssn.res = "Ok"

---------------------------------------------------------------------------
(* trace::read_spi_terminal and spi::read_ufifo.  The 512 bytes of the     *)
(* uFIFO are held as the length of their first two bytes and the bytes     *)
(* after them that are not 0 (body); every other byte is 0.                 *)

UFIFO_SIZE == 512

\* EM100_MSG_SIGNATURE, 0x47364440, as its four bytes
EM100_MSG_SIGNATURE == <<71, 54, 68, 64>>

\* data[k] of the uFIFO bytes, for k < UFIFO_SIZE
UfifoByte(d, k) ==
    IF k = 0 THEN d.length \div 256
    ELSE IF k = 1 THEN d.length % 256
    ELSE IF k - 1 <= Len(d.body) THEN d.body[k - 1] ELSE 0

\* AtomicU32::fetch_add(val) on a counter held as two 16-bit halves: it wraps
fetch_add(counter, val) ==
    [hi |-> (counter.hi + (counter.lo + val) \div 65536) % 65536,
     lo |-> (counter.lo + val) % 65536]

\* if sig == EM100_MSG_SIGNATURE, for the four bytes at offset
is_signature(d, offset) ==
    <<UfifoByte(d, offset), UfifoByte(d, offset + 1), UfifoByte(d, offset + 2),
      UfifoByte(d, offset + 3)>> = EM100_MSG_SIGNATURE

\* The bytes `for k in 0..msg_len` prints: up to the end of the buffer and of
\* the valid data; a lookup message (0x07) prints two bytes at a time, and
\* nothing for its last byte
message_printed(d, offset, data_type, msg_len) ==
    LET n == Min(msg_len, Min(UFIFO_SIZE, 2 + d.length) - (offset + 6))
        ks == IF data_type = 7
              THEN { k \in 0..(n - 1) : k + 1 < msg_len /\ offset + 6 + k + 1 < UFIFO_SIZE }
              ELSE 0..(n - 1)
    IN  [k \in 1..Cardinality(ks) |->
            IF data_type = 7
            THEN <<UfifoByte(d, offset + 6 + k - 1), UfifoByte(d, offset + 6 + k)>>
            ELSE <<UfifoByte(d, offset + 6 + k - 1)>>]

\* What is printed for the message at offset: its number when show_counter,
\* and its bytes
message_event(d, offset, counter, show_counter) ==
    [offset |-> offset, data_type |-> UfifoByte(d, offset + 4),
     msg_len |-> UfifoByte(d, offset + 5),
     counter |-> IF show_counter THEN counter ELSE [hi |-> -1, lo |-> -1],
     printed |-> message_printed(d, offset, UfifoByte(d, offset + 4),
                                 UfifoByte(d, offset + 5))]

\* A mutation of after_message: the scan goes on at the next byte
after_message_next_byte(j, msg_len) == j + 1

\* j += 6 + msg_len
after_message(j, msg_len) == j + 6 + msg_len

\* The first j from which on the loop finds a signature, or -1: the loop
\* goes `j += 1` over every position without one
next_signature(d, j) ==
    LET hits == { p \in j..(UFIFO_SIZE - 2 - 7) : p < d.length /\ is_signature(d, 2 + p) }
    IN  IF hits = {} THEN -1 ELSE CHOOSE p \in hits : \A q \in hits : p <= q

\* while j < data_length && j + 6 < UFIFO_SIZE - data_start { .. }, from one
\* message to the next
RECURSIVE terminal_scan(_, _, _, _, _)
terminal_scan(d, j, counter, show_counter, out) ==
    LET p == next_signature(d, j)
    IN  IF p = -1 THEN [msg_counter |-> counter, out |-> out]
        ELSE terminal_scan(d, after_message(p, UfifoByte(d, 2 + p + 5)),
                           fetch_add(counter, 1), show_counter,
                           Append(out, message_event(d, 2 + p, counter, show_counter)))

\* spi::read_ufifo: cmd[0] = 0x53, the length and the timeout big-endian
cmd_read_ufifo(length, timeout) ==
    <<83, (length \div 256) % 256, length % 256, (timeout \div 256) % 256, timeout % 256,
      0, 0, 0, 0, 0, 0, 0, 0, 0, 0, 0>>

Ufifo(length, body) == [length |-> length, body |-> body]

\* What the uFIFO may hold: nothing; an ASCII message "Hi" and four bytes
\* more; a checkpoint and an ASCII message; eight bytes without a signature;
\* a signature of which only the first two bytes are valid data; a message
\* whose six bytes are a signature and the header of an empty message; a
\* lookup message of three bytes; a length of 0xffff over a message that
\* claims 255 bytes
UfifoContents ==
    { Ufifo(0, <<>>),
      Ufifo(12, <<71, 54, 68, 64, 5, 2, 72, 105, 9, 9, 9, 9>>),
      Ufifo(16, <<71, 54, 68, 64, 1, 1, 170, 71, 54, 68, 64, 5, 3, 97, 98, 99>>),
      Ufifo(8, <<71, 54, 68, 65, 1, 2, 3, 4>>),
      Ufifo(2, <<71, 54, 68, 64, 5, 2, 72, 105>>),
      Ufifo(12, <<71, 54, 68, 64, 4, 6, 71, 54, 68, 64, 1, 0>>),
      Ufifo(9, <<71, 54, 68, 64, 7, 3, 1, 2, 3>>),
      Ufifo(65535, <<71, 54, 68, 64, 5, 255, 72, 105>>) }

\* What the first IN transfer of read_ufifo may deliver: the 512 bytes, all
\* but the last one, or a failed transfer
UfifoResponses ==
    { [status |-> "ok", actual_len |-> UFIFO_SIZE, data |-> d] : d \in UfifoContents }
      \cup { [status |-> "ok", actual_len |-> UFIFO_SIZE - 1, data |-> Ufifo(0, <<>>)],
             [status |-> "err", actual_len |-> 0, data |-> Ufifo(0, <<>>)] }

\* The calls of read_spi_terminal in a session
MaxTerminalCalls == 2

\* read_spi_terminal(em100, show_counter) is called
TerminalCall ==
    /\ ht.pc = "idle" /\ ht.calls < MaxTerminalCalls
    /\ \E show_counter \in BOOLEAN :
          ht' = [ht EXCEPT !.pc = "cmd", !.show_counter = show_counter,
                           !.calls = @ + 1, !.out = <<>>, !.res = "none"]
    /\ UNCHANGED <<build, wire, em100, coreVars, traceVars, opVars, ssn, dp, dl, fwp>>

\* read_ufifo: usb::send_cmd(em100, &cmd)?
UfifoCmd ==
    /\ ht.pc = "cmd"
    /\ \E o \in OutOutcomes(CMD_LEN) :
          /\ wire' = Append(wire, OutXfer(send_cmd_buf(cmd_read_ufifo(UFIFO_SIZE, 0)), o))
          /\ ht' = IF send_cmd_result(o) = "Ok" THEN [ht EXCEPT !.pc = "resp"]
                   ELSE [ht EXCEPT !.pc = "ret", !.res = send_cmd_result(o)]
    /\ UNCHANGED <<build, em100, coreVars, traceVars, opVars, ssn, dp, dl, fwp>>

\* read_ufifo: let data = usb::get_response(em100, 512)?
UfifoResp ==
    /\ ht.pc = "resp"
    /\ \E r \in UfifoResponses :
          /\ wire' = Append(wire,
                [ep |-> "in",
                 requested_len |-> round_up_to_max_packet(512, em100.max_packet_size),
                 status |-> r.status, actual_len |-> r.actual_len, data |-> r.data])
          /\ ht' = IF r.status # "ok" THEN [ht EXCEPT !.pc = "ret", !.res = "UsbTransfer"]
                   ELSE [ht EXCEPT !.pc = "second", !.data = r.data,
                                   !.len = Min(r.actual_len, 512)]
    /\ UNCHANGED <<build, em100, coreVars, traceVars, opVars, ssn, dp, dl, fwp>>

\* read_ufifo: let _ = usb::get_response(em100, 2), and the test of the
\* length; then read_spi_terminal over the data
UfifoSecond ==
    /\ ht.pc = "second"
    /\ \E r \in { [status |-> "ok", data |-> <<0, 0>>], [status |-> "err", data |-> <<>>] } :
          wire' = Append(wire, InXfer(round_up_to_max_packet(2, em100.max_packet_size), r))
    /\ ht' = IF ht.len # UFIFO_SIZE THEN [ht EXCEPT !.pc = "ret", !.res = "InvalidResponse"]
             ELSE IF ht.data.length = 0 THEN [ht EXCEPT !.pc = "ret", !.res = "Ok(true)"]
             ELSE LET t == terminal_scan(ht.data, 0, ht.msg_counter, ht.show_counter, <<>>)
                  IN  [ht EXCEPT !.pc = "ret", !.res = "Ok(true)",
                                 !.msg_counter = t.msg_counter, !.out = t.out]
    /\ UNCHANGED <<build, em100, coreVars, traceVars, opVars, ssn, dp, dl, fwp>>

\* read_spi_terminal returns to its caller
TerminalReturn ==
    /\ ht.pc = "ret"
    /\ ht' = [ht EXCEPT !.pc = "idle"]
    /\ UNCHANGED <<build, wire, em100, coreVars, traceVars, opVars, ssn, dp, dl, fwp>>

InitTerminal ==
    /\ wire = <<>> /\ sc = scIdle /\ dcfg = dcfgIdle /\ fwv = fwvIdle
    /\ sct = sctIdle /\ sd = sdIdle /\ dev = devIdle
    /\ exit_requested = FALSE /\ rx = rxIdle /\ TraceIdle /\ OpIdle
    /\ em100 = [em100Idle EXCEPT !.hw_version = "Em100Pro"]
    /\ build = buildIdle /\ ssn = ssnIdle /\ dp = dpIdle /\ dl = dlIdle /\ fwp = fwpIdle
    /\ ht = htIdle

NextTerminal == TerminalCall \/ UfifoCmd \/ UfifoResp \/ UfifoSecond \/ TerminalReturn

SpecTerminal == InitTerminal /\ [][NextTerminal]_vars

\* The positions j the scan may look at
ScanRange(d) == { j \in 0..(UFIFO_SIZE - 2 - 7) : j < d.length }

\* The messages printed are the signatures the scan meets: from where it is
\* (0, or the end of the message before) it meets no signature before the
\* next message, and none after the last one
MessagesAreMatches(d, events) ==
    LET from(i) == IF i = 1 THEN 0
                   ELSE events[i - 1].offset - 2 + 6 + events[i - 1].msg_len
    IN  /\ \A i \in 1..Len(events) :
              /\ events[i].offset - 2 \in ScanRange(d)
              /\ events[i].offset - 2 >= from(i)
              /\ is_signature(d, events[i].offset)
              /\ \A j \in ScanRange(d) :
                    (from(i) <= j /\ j < events[i].offset - 2) => ~is_signature(d, 2 + j)
        /\ \A j \in ScanRange(d) : j >= from(Len(events) + 1) => ~is_signature(d, 2 + j)

\* C36: the message counter never decreases; a call of read_spi_terminal adds
\* one to it for each signature 0x47364440 its scan matches, and a call whose
\* uFIFO data has no signature, or the valid length 0, leaves it as it is.
C36_MessageCounterMonotone ==
    [][/\ ~ts_less(ht'.msg_counter, ht.msg_counter)
       /\ ht'.msg_counter # ht.msg_counter
             => (ht.pc = "second" /\ ht'.res = "Ok(true)" /\ ht.data.length # 0)
       /\ (ht.pc = "second" /\ ht'.res = "Ok(true)")
             => /\ ht'.msg_counter = fetch_add(ht.msg_counter, Len(ht'.out))
                /\ MessagesAreMatches(ht.data, ht'.out)
                /\ ht.data.length = 0 => ht'.out = <<>>]_vars

\* Two calls, of two messages and of one: the counter is 4; the second call
\* showed the number 3 with its message
C36_Witness ==
    /\ ht.calls = 2 /\ ht.pc = "ret" /\ ht.res = "Ok(true)"
    /\ ht.msg_counter = [hi |-> 0, lo |-> 4]
    /\ Len(ht.out) = 1 /\ ht.out[1].counter = [hi |-> 0, lo |-> 3]

---------------------------------------------------------------------------
(* Specification SpecFwPages: validate_firmware's test of the lengths and   *)
(* firmware_write without verification over images of every accepted size. *)
(* An image has up to 4096 pages, so the pages and the transfers are not    *)
(* spelled out: fwp.last is the flash operation of the step, fwp.erased the *)
(* sectors erased so far; a step that fails ends the run.                   *)

\* A sector is 64 KiB: `(sector as u32) << 16` is its first address
SECTOR_SIZE == 65536

sector_of(address) == address \div SECTOR_SIZE

\* The lengths of the images of a container: the smallest, odd ones, the
\* largest ones that validate_firmware accepts, and one more byte
FpgaLengths == {256, 300, 1048576, 1048577}
McuLengths == {256, 1000, 982784, 982785, 983040, 983041}

InitFwPages ==
    /\ wire = <<>> /\ sc = scIdle /\ dcfg = dcfgIdle /\ fwv = fwvIdle
    /\ sct = sctIdle /\ sd = sdIdle /\ dev = devIdle
    /\ exit_requested = FALSE /\ rx = rxIdle /\ TraceIdle /\ OpIdle
    /\ em100 = [em100Idle EXCEPT !.hw_version = "Em100Pro"]
    /\ build = buildIdle /\ ssn = ssnIdle /\ ht = htIdle /\ dp = dpIdle /\ dl = dlIdle
    /\ \E fl \in FpgaLengths, ml \in McuLengths :
          /\ fl = 256 \/ ml = 256
          /\ fwp = [fwpIdle EXCEPT !.fpga_len = fl, !.mcu_len = ml]

\* validate_firmware: the test of the lengths; firmware_write is called with
\* the FirmwareInfo it returns
FwPagesValidate ==
    /\ fwp.pc = "idle"
    /\ fwp' = IF fw_lengths_valid(fwp.fpga_len, fwp.mcu_len) THEN [fwp EXCEPT !.pc = "unlock"]
              ELSE [fwp EXCEPT !.pc = "done", !.res = "InvalidFirmware"]
    /\ UNCHANGED <<build, wire, em100, coreVars, traceVars, opVars, ssn, ht, dp, dl>>

\* The step of firmware_write went through, or its error ends the run
fwp_step(ok, after) ==
    IF ok THEN after ELSE [fwp EXCEPT !.pc = "done", !.res = "Err"]

\* spi::unlock_spi_flash(em100)?; spi::get_spi_flash_id(em100)?
FwPagesUnlock ==
    /\ fwp.pc = "unlock"
    /\ \E ok \in BOOLEAN :
          fwp' = fwp_step(ok, [fwp EXCEPT !.pc = "erase", !.i = 0,
                                          !.last = [op |-> "unlock", address |-> 0]])
    /\ UNCHANGED <<build, wire, em100, coreVars, traceVars, opVars, ssn, ht, dp, dl>>

\* for i in 0..=0x1e { spi::erase_spi_flash_sector(em100, i as u8)?; .. }, one
\* turn; after the last one, spi::get_spi_flash_id(em100)?
FwPagesErase ==
    /\ fwp.pc = "erase"
    /\ \E ok \in BOOLEAN :
          fwp' = fwp_step(ok,
                    [fwp EXCEPT !.erased = @ \cup {fwp.i},
                                !.last = [op |-> "erase", address |-> fwp.i * SECTOR_SIZE],
                                !.i = IF fwp.i < LAST_ERASED_SECTOR THEN @ + 1 ELSE 0,
                                !.pc = IF fwp.i < LAST_ERASED_SECTOR THEN "erase" ELSE "fpga"])
    /\ UNCHANGED <<build, wire, em100, coreVars, traceVars, opVars, ssn, ht, dp, dl>>

\* for i in (0..info.fpga_len).step_by(256) { .. write_spi_flash_page(em100,
\* i as u32, &page)?; .. }, one turn
FwPagesFpga ==
    /\ fwp.pc = "fpga"
    /\ \E ok \in BOOLEAN :
          fwp' = fwp_step(ok,
                    [fwp EXCEPT !.last = [op |-> "program_fpga", address |-> fwp.i],
                                !.i = IF fwp.i + 256 < fwp.fpga_len THEN @ + 256 ELSE 0,
                                !.pc = IF fwp.i + 256 < fwp.fpga_len THEN "fpga" ELSE "mcu"])
    /\ UNCHANGED <<build, wire, em100, coreVars, traceVars, opVars, ssn, ht, dp, dl>>

\* for i in (0..info.mcu_len).step_by(256) { .. write_spi_flash_page(em100,
\* (i + 0x100100) as u32, &page)?; .. }, one turn
FwPagesMcu ==
    /\ fwp.pc = "mcu"
    /\ \E ok \in BOOLEAN :
          fwp' = fwp_step(ok,
                    [fwp EXCEPT !.last = [op |-> "program_mcu", address |-> fwp.i + MCU_BASE],
                                !.i = IF fwp.i + 256 < fwp.mcu_len THEN @ + 256 ELSE 0,
                                !.pc = IF fwp.i + 256 < fwp.mcu_len THEN "mcu" ELSE "marker"])
    /\ UNCHANGED <<build, wire, em100, coreVars, traceVars, opVars, ssn, ht, dp, dl>>

\* spi::write_spi_flash_page(em100, 0x100000, &page)? with the boot marker
FwPagesMarker ==
    /\ fwp.pc = "marker"
    /\ \E ok \in BOOLEAN :
          fwp' = fwp_step(ok,
                    [fwp EXCEPT !.last = [op |-> "program_marker",
                                          address |-> BOOT_MARKER_ADDRESS],
                                !.pc = "done", !.res = "Ok"])
    /\ UNCHANGED <<build, wire, em100, coreVars, traceVars, opVars, ssn, ht, dp, dl>>

NextFwPages ==
    \/ FwPagesValidate \/ FwPagesUnlock \/ FwPagesErase \/ FwPagesFpga \/ FwPagesMcu
    \/ FwPagesMarker

SpecFwPages == InitFwPages /\ [][NextFwPages]_vars

\* The step has programmed a page, or erased a sector
Programmed == fwp'.last # fwp.last /\ fwp'.last.op \in {"program_fpga", "program_mcu", "program_marker"}
Erased == fwp'.last # fwp.last /\ fwp'.last.op = "erase"

\* The three ranges: FPGA pages below the marker page, MCU pages above it
RangesDisjoint ==
    /\ fwp'.last.op = "program_fpga" => fwp'.last.address + 256 <= BOOT_MARKER_ADDRESS
    /\ fwp'.last.op = "program_marker" => fwp'.last.address + 256 <= MCU_BASE
    /\ fwp'.last.op = "program_mcu" => fwp'.last.address >= MCU_BASE

\* C37: every page firmware_write programs for an accepted FirmwareInfo lies
\* in one of the sectors 0..30, erased earlier in the run; sector 31 (from
\* 0x1f0000 on) is neither erased nor programmed; the FPGA pages, the marker
\* page at 0x100000 and the MCU pages from 0x100100 on do not overlap.
C37_PagesInErasedSectors ==
    [][/\ Programmed => /\ sector_of(fwp'.last.address) \in fwp.erased
                        /\ sector_of(fwp'.last.address + 255) \in 0..LAST_ERASED_SECTOR
                        /\ RangesDisjoint
       /\ Erased => sector_of(fwp'.last.address) \in 0..LAST_ERASED_SECTOR]_vars

\* The same for the MCU images of at most 0xeff00 bytes
C37_PagesInErasedSectorsShortMcu ==
    [][fwp.mcu_len <= 982784
          => (/\ Programmed => /\ sector_of(fwp'.last.address) \in fwp.erased
                               /\ sector_of(fwp'.last.address + 255) \in 0..LAST_ERASED_SECTOR
                               /\ RangesDisjoint
              /\ Erased => sector_of(fwp'.last.address) \in 0..LAST_ERASED_SECTOR)]_vars

---------------------------------------------------------------------------
(* firmware::firmware_to_dpfw: the container made of a flash dump, and     *)
(* validate_firmware on it                                                 *)

\* The decimal digits of n, as format!("{}") writes them
RECURSIVE decimal(_)
decimal(n) == IF n < 10 THEN <<48 + n>> ELSE decimal(n \div 10) \o <<48 + (n % 10)>>

\* format!("{}.{}", major, minor), and the first four bytes of it at most
version_field(major, minor) ==
    LET str == decimal(major) \o <<46>> \o decimal(minor)
    IN  SubSeq(str, 1, Min(Len(str), 4))

\* for i in (0..limit).step_by(0x100) { if data[base + i..base + i + 256] ==
\* all_ff { size = i; break; } }: the size, 0 when no page is all 0xff, and a
\* panic when a page the loop looks at lies beyond the data
first_blank(data, base, limit) ==
    LET hits == { i \in { a - base : a \in data.blank } :
                    i >= 0 /\ i < limit /\ i % 256 = 0 }
        size == IF hits = {} THEN 0 ELSE CHOOSE i \in hits : \A k \in hits : i <= k
        last == IF hits = {} THEN limit - 256 ELSE size
    IN  IF base + last + 256 > data.len THEN [status |-> "panic", size |-> 0]
        ELSE [status |-> "ok", size |-> size]

\* The first 0x48 bytes of the header firmware_to_dpfw writes
dpfw_header(hdr_version, mcu, fpga, fpga_size, mcu_size) ==
    LET magic == IF hdr_version = 1 THEN MAGIC_V1 ELSE MAGIC_V2
        mcu_version == version_field(mcu \div 256, mcu % 256)
        fpga_version == version_field((fpga \div 256) % 128, fpga % 256)
    IN  magic \o Zeros(20 - Len(magic))
          \o mcu_version \o Zeros(10 - Len(mcu_version))
          \o fpga_version \o Zeros(10 - Len(fpga_version))
          \o MAGIC_WFPD \o Zeros(12)
          \o put_le32(256) \o put_le32(fpga_size)
          \o put_le32(256 + fpga_size) \o put_le32(mcu_size)

DpfwErr(status) == [status |-> status, fw |-> [len |-> 0, head |-> <<>>]]

\* for i in (0..0xfff00).step_by(0x100): the end of the scan for the MCU image
mcu_scan_limit == 1048320

\* firmware_to_dpfw(em100, data)
firmware_to_dpfw(e, data) ==
    IF e.hw_version \notin {"Em100ProEarly", "Em100Pro", "Em100ProG2"}
    THEN DpfwErr("UnsupportedHardware")
    ELSE LET f == first_blank(data, 0, MB)
             m == first_blank(data, MCU_BASE, mcu_scan_limit)
         IN  IF f.status = "panic" THEN DpfwErr("panic")
             ELSE IF f.size = 0 THEN DpfwErr("InvalidFirmware")
             ELSE IF m.status = "panic" THEN DpfwErr("panic")
             ELSE IF m.size = 0 THEN DpfwErr("InvalidFirmware")
             ELSE [status |-> "Ok",
                   fw |-> [len |-> 256 + f.size + m.size,
                           head |-> dpfw_header(IF e.hw_version = "Em100ProG2" THEN 2 ELSE 1,
                                                e.mcu, e.fpga, f.size, m.size)]]

\* Flash dumps of 2 MiB and of 1 MiB: the FPGA image ends at its first page,
\* after its first page, in its last page or nowhere below 0x100000; the MCU
\* image likewise, or 0xf0000, 0xf0100 or 0xffe00 bytes after 0x100100
FlashDumps ==
    { [len |-> l, blank |-> f \cup { MCU_BASE + x : x \in m }] :
        l \in {2 * MB, MB},
        f \in { {}, {0}, {256}, {1048320} },
        m \in { {}, {0}, {256}, {983040}, {983296}, {1047808}, {256, 983296} } }

InitDpfw ==
    /\ wire = <<>> /\ sc = scIdle /\ dcfg = dcfgIdle /\ fwv = fwvIdle
    /\ sct = sctIdle /\ sd = sdIdle /\ dev = devIdle
    /\ exit_requested = FALSE /\ rx = rxIdle /\ TraceIdle /\ OpIdle
    /\ em100 \in [mcu : {539, 3106}, fpga : {85}, hw_version : HwVersions,
                  max_packet_size : {512}]
    /\ build = buildIdle /\ ssn = ssnIdle /\ ht = htIdle /\ dl = dlIdle /\ fwp = fwpIdle
    /\ \E d \in FlashDumps : dp = [dpIdle EXCEPT !.data = d]

\* One call of firmware_to_dpfw(em100, data); a panic ends the process
FirmwareToDpfw ==
    /\ dp.pc = "idle"
    /\ dp' = [dp EXCEPT !.pc = "converted", !.res = firmware_to_dpfw(em100, dp.data)]
    /\ UNCHANGED <<build, wire, em100, coreVars, traceVars, opVars, ssn, ht, dl, fwp>>

\* validate_firmware(em100, &output) on the container it returned
DpfwValidate ==
    /\ dp.pc = "converted" /\ dp.res.status = "Ok"
    /\ dp' = [dp EXCEPT !.pc = "done",
                        !.verdict = validate_firmware(em100.hw_version, dp.res.fw)]
    /\ UNCHANGED <<build, wire, em100, coreVars, traceVars, opVars, ssn, ht, dl, fwp>>

NextDpfw == FirmwareToDpfw \/ DpfwValidate

SpecDpfw == InitDpfw /\ [][NextDpfw]_vars

\* The header of the container has the magic of the hardware version, WFPD
\* at 0x28 and the four fields of an accepted FirmwareInfo
DpfwHeaderAsStated(head, len) ==
    /\ IF em100.hw_version = "Em100ProG2" THEN Slice(head, 0, 11) = MAGIC_V2
       ELSE Slice(head, 0, 8) = MAGIC_V1
    /\ Slice(head, 40, 44) = MAGIC_WFPD
    /\ get_le32(head, 56) = 256
    /\ get_le32(head, 64) = 256 + get_le32(head, 60)
    /\ get_le32(head, 60) >= 256 /\ get_le32(head, 60) <= 1048576
    /\ get_le32(head, 68) >= 256 /\ get_le32(head, 68) <= 983040
    /\ len = 256 + get_le32(head, 60) + get_le32(head, 68)

\* C38: every container firmware_to_dpfw returns Ok for is accepted by
\* validate_firmware on the same device: magic of the hardware version,
\* WFPD at 0x28, fpga_offset 0x100, mcu_offset 0x100 + fpga_len, fpga_len in
\* [256, 0x100000], mcu_len in [256, 0xf0000], length 0x100 + fpga_len + mcu_len.
C38_DpfwOutputValidates ==
    /\ (dp.pc # "idle" /\ dp.res.status = "Ok")
          => DpfwHeaderAsStated(dp.res.fw.head, dp.res.fw.len)
    /\ dp.pc = "done" => dp.verdict.status = "Ok"

\* The same for the dumps whose MCU image ends within 0xf0000 bytes
C38_ValidatesWhenMcuShort ==
    (\E a \in dp.data.blank : a >= MCU_BASE /\ a - MCU_BASE <= 983040)
        => /\ (dp.pc # "idle" /\ dp.res.status = "Ok")
                 => DpfwHeaderAsStated(dp.res.fw.head, dp.res.fw.len)
           /\ dp.pc = "done" => dp.verdict.status = "Ok"

---------------------------------------------------------------------------
(* main: the download of a file to a start address of the SDRAM            *)

\* chip.size of the chip chosen, or 0x4000000 without a chip; the SDRAM is
\* of this size
DefaultMaxlen == 67108864

\* The first k bytes of the runs e
RECURSIVE ext_take(_, _)
ext_take(e, k) ==
    IF k = 0 \/ e = <<>> THEN <<>>
    ELSE IF Head(e).len <= k THEN <<Head(e)>> \o ext_take(Tail(e), k - Head(e).len)
    ELSE <<[Head(e) EXCEPT !.len = k]>>

\* The runs e without their first k bytes
RECURSIVE ext_drop(_, _)
ext_drop(e, k) ==
    IF e = <<>> THEN <<>>
    ELSE IF k = 0 THEN e
    ELSE IF Head(e).len <= k THEN ext_drop(Tail(e), k - Head(e).len)
    ELSE <<[Head(e) EXCEPT !.len = @ - k, !.off = @ + k]>> \o Tail(e)

\* The runs e with neighbours that continue each other made one run
RECURSIVE ext_join(_)
ext_join(e) ==
    IF Len(e) < 2 THEN e
    ELSE IF e[1].src = e[2].src /\ e[1].off + e[1].len = e[2].off
         THEN ext_join(<<[e[1] EXCEPT !.len = @ + e[2].len]>> \o Tail(Tail(e)))
         ELSE <<e[1]>> \o ext_join(Tail(e))

\* The number of bytes of the runs e
RECURSIVE ext_len(_)
ext_len(e) == IF e = <<>> THEN 0 ELSE Head(e).len + ext_len(Tail(e))

\* &v[from..from + n]
ext_range(e, from, n) == ext_join(ext_take(ext_drop(e, from), n))

FileRun(n) == <<[len |-> n, src |-> "file", off |-> 0]>>
OldSdram == <<[len |-> DefaultMaxlen, src |-> "old", off |-> 0]>>

\* if end <= existing.len()
merge_fits(end, existing_len) == end <= existing_len

\* existing[start..end].copy_from_slice(&data)
copy_from_slice(existing, start, n) ==
    ext_take(existing, start) \o FileRun(n) \o ext_drop(existing, start + n)

\* readback == data: the bytes read are the file's, or old bytes that are
\* the same as the file's
readback_is_data(d, readback) ==
    \/ readback = FileRun(d.data_len)
    \/ /\ d.same
       /\ readback = <<[len |-> d.data_len, src |-> "old", off |-> d.spi_start_address]>>

dl_exit(d) == [d EXCEPT !.pc = "done", !.res = "exit1"]

\* em100.download(buf, 0) that succeeded
dl_written(d, buf) ==
    [d EXCEPT !.sdram = ext_join(buf \o ext_drop(d.sdram, ext_len(buf))), !.wrote = TRUE]

InitDownload ==
    /\ wire = <<>> /\ sc = scIdle /\ dcfg = dcfgIdle /\ fwv = fwvIdle
    /\ sct = sctIdle /\ sd = sdIdle /\ dev = devIdle
    /\ exit_requested = FALSE /\ rx = rxIdle /\ TraceIdle /\ OpIdle
    /\ em100 = em100Idle
    /\ build = buildIdle /\ ssn = ssnIdle /\ ht = htIdle /\ dp = dpIdle /\ fwp = fwpIdle
    /\ \E a \in {0, 4096, 1048576, 2093056, 2097152},
          n \in {0, 4096, 4097, 1048576, 2097152, 2097153},
          m \in {2097152, DefaultMaxlen}, v \in BOOLEAN, same \in BOOLEAN :
          dl = [dlIdle EXCEPT !.spi_start_address = a, !.data_len = n, !.maxlen = m,
                              !.verify = v, !.same = same, !.sdram = OldSdram]

\* if data.is_empty() / if data.len() > maxlen, and the choice of the branch
DownloadCheck ==
    /\ dl.pc = "idle"
    /\ dl' = IF dl.data_len = 0 \/ dl.data_len > dl.maxlen THEN dl_exit(dl)
             ELSE IF dl.spi_start_address # 0 THEN [dl EXCEPT !.pc = "upload"]
             ELSE [dl EXCEPT !.pc = "download", !.existing = FileRun(dl.data_len)]
    /\ UNCHANGED <<build, wire, em100, coreVars, traceVars, opVars, ssn, ht, dp, fwp>>

\* match em100.upload(0, maxlen): the merge when it fits, nothing when not
DownloadUpload ==
    /\ dl.pc = "upload"
    /\ \E ok \in BOOLEAN :
         dl' = IF ~ok THEN dl_exit(dl)
               ELSE LET existing == ext_range(dl.sdram, 0, dl.maxlen)
                        end == dl.spi_start_address + dl.data_len
                    IN  IF merge_fits(end, dl.maxlen)
                        THEN [dl EXCEPT !.pc = "download",
                                        !.existing = copy_from_slice(existing,
                                                       dl.spi_start_address, dl.data_len)]
                        ELSE [dl EXCEPT !.pc = "verify", !.existing = existing]
    /\ UNCHANGED <<build, wire, em100, coreVars, traceVars, opVars, ssn, ht, dp, fwp>>

\* em100.download(&existing, 0) or em100.download(&data, 0); one that fails
\* may have written or not
DownloadDownload ==
    /\ dl.pc = "download"
    /\ \E ok \in BOOLEAN, partial \in BOOLEAN :
         dl' = IF ok THEN [dl_written(dl, dl.existing) EXCEPT !.pc = "verify"]
               ELSE IF partial THEN dl_exit(dl_written(dl, dl.existing))
               ELSE dl_exit(dl)
    /\ UNCHANGED <<build, wire, em100, coreVars, traceVars, opVars, ssn, ht, dp, fwp>>

\* if args.verify { match em100.upload(spi_start_address, data.len()) }
DownloadVerify ==
    /\ dl.pc = "verify"
    /\ \E ok \in BOOLEAN :
         dl' = IF ~dl.verify THEN [dl EXCEPT !.pc = "done", !.res = "ok"]
               ELSE IF ~ok THEN dl_exit(dl)
               ELSE IF readback_is_data(dl, ext_range(dl.sdram, dl.spi_start_address,
                                                      dl.data_len))
               THEN [dl EXCEPT !.pc = "done", !.res = "ok"]
               ELSE dl_exit(dl)
    /\ UNCHANGED <<build, wire, em100, coreVars, traceVars, opVars, ssn, ht, dp, fwp>>

NextDownload == DownloadCheck \/ DownloadUpload \/ DownloadDownload \/ DownloadVerify

SpecDownload == InitDownload /\ [][NextDownload]_vars

\* The download ended without an error and had a start address
DownloadedAt == dl.pc = "done" /\ dl.res = "ok" /\ dl.spi_start_address # 0

\* The bytes [a, a + n) of the SDRAM are the file's and the others are the old ones
MergedInPlace ==
    LET a == dl.spi_start_address
        n == dl.data_len
    IN  /\ ext_range(dl.sdram, 0, a) = ext_range(OldSdram, 0, a)
        /\ readback_is_data(dl, ext_range(dl.sdram, a, n))
        /\ ext_join(ext_drop(dl.sdram, a + n)) = ext_drop(OldSdram, a + n)

\* C39: a download of n bytes to a non-zero start address a that ends without
\* an error leaves the SDRAM bytes [a, a + n) equal to the file and every other
\* byte unchanged, and has written the data, also when a + n exceeds the image size.
C39_DownloadMergesOrFails == DownloadedAt => (MergedInPlace /\ dl.wrote)

\* The same for the downloads that end within the image size
C39_MergesWhenItFits ==
    (DownloadedAt /\ dl.spi_start_address + dl.data_len <= dl.maxlen)
        => (MergedInPlace /\ dl.wrote)

---------------------------------------------------------------------------
(* The 16-bit sum reg + reg_offset of parse_dcfg *)

\* The pairs of the primary region that are not sentinels, in input order
KeptPairs == SelectSeq([k \in 1..PairCount |-> k], LAMBDA k : ~IsSentinel(k))

\* The sum reg + reg_offset of pair k does not fit in 16 bits
FullRegOverflows(k) == ~IsSentinel(k) /\ PairReg(k) + OffsetAt(k) > 65535

\* The parse stopped at the overflow of a sum
AbortedAtSum ==
    /\ dcfg.res.status = "panic"
    /\ build.overflow_checks
    /\ \E k \in 1..PairCount : FullRegOverflows(k)

\* The register number of the record made of the n-th kept pair is the sum
\* reg + reg_offset of that pair
RegisterIsSum(n) ==
    LET rec == dcfg.res.chip.init[n]
    IN  rec[1] * 256 + rec[2] = PairReg(KeptPairs[n]) + OffsetAt(KeptPairs[n])

\* C40: in parse_dcfg the 16-bit sum reg + reg_offset never overflows: for
\* every pair of the primary region that is not a sentinel, full_reg is the
\* mathematical sum and fits in 16 bits, so the parse neither aborts at the
\* sum nor wraps the register number.
C40_FullRegNeverOverflows ==
    dcfg.pc = "done" =>
        /\ ~AbortedAtSum
        /\ dcfg.res.status = "Ok" =>
              \A n \in 1..Min(Len(KeptPairs), Len(dcfg.res.chip.init)) : RegisterIsSum(n)

\* A file with a sum above 0xffff aborts the parse in a build with overflow
\* checks and gets a wrapped register number in one without; every other
\* file that parses gets the sums
C40_AbortsOrWraps ==
    (dcfg.pc = "done" /\ Len(dcfg.data) >= DEDIPROG_CFG_PRO_SIZE) =>
        IF \E k \in 1..PairCount : FullRegOverflows(k)
        THEN IF build.overflow_checks THEN dcfg.res.status = "panic"
             ELSE dcfg.res.status = "Ok" =>
                     \E n \in 1..Len(KeptPairs) : ~RegisterIsSum(n)
        ELSE ~AbortedAtSum /\
             (dcfg.res.status = "Ok" =>
                 \A n \in 1..Min(Len(KeptPairs), Len(dcfg.res.chip.init)) : RegisterIsSum(n))

====
